---- MODULE Spec2Model ----
(***************************************************************************)
(* Process supervision of the FFmpeg front end.                            *)
(*                                                                         *)
(* Two variants of the program are modelled side by side:                  *)
(*   - src/ffmpeggui.py      (Tk):  a worker thread blocks in              *)
(*     subprocess.run, a chain of root.after timers ramps the progress     *)
(*     value, and a second chain of timers polls the output file's size    *)
(*     (check_completion_status / verify_file_stable);                     *)
(*   - src/ffmpeggui.V0.2.py (Qt):  an FFmpegWorker thread reads the       *)
(*     child's output and emits finished_signal, a QTimer ramps the        *)
(*     progress bar.                                                       *)
(* Each variant has its own specification over its own variables.          *)
(*                                                                         *)
(* The hardware detection and the command builder of both variants are     *)
(* modelled further down, each with a specification of its own, and so is  *)
(* the NCM conversion with the built-in decryption of the Tk variant.      *)
(***************************************************************************)
EXTENDS Integers, Sequences, FiniteSets, TLC

\* ------------------------------------------------------------------ bounds
\* Number of jobs (run_ffmpeg_command invocations) a behaviour may start.
MaxJobs == 2
\* Number of hardware re-detections that may be pending at once.
MaxDetect == 1
\* Number of file observations recorded for one Finalizing episode.
MaxSamples == 6
\* Number of re-detection threads a behaviour may start.
MaxPasses == 2

\* ------------------------------------------------------- program constants
\* simulate_progress: new_progress = min(current_progress + 2, 99)
RampStep == 2
RampCap == 99
\* verify_file_stable: if self.progress_check_count >= 2
StableChecks == 2
\* on_processing_complete / on_detection_complete: progress_var.set(100)
Complete == 100
\* convert_ncm_to_mp3: progress_var.set(10), progress_var.set(50)
NcmDecrypting == 10
NcmConverting == 50
\* V0.2 simulate_progress: new_value = min(current_value + 5, 90)
QtRampStep == 5
QtRampCap == 90

Jobs == 1..MaxJobs
\* The output file does not exist (os.path.exists is False).
Absent == 0
\* Sizes os.path.getsize may report for the output file.
Sizes == {100, 150}
\* Outcomes of subprocess.run(cmd, check=True): exit code 0, a non-zero exit
\* code (CalledProcessError), or another exception (the child cannot be
\* spawned, its output cannot be decoded).
Outcomes == {"zero", "nonzero", "raised"}

Min(a, b) == IF a < b THEN a ELSE b

VARIABLES
    \* ---- src/ffmpeggui.py, FFmpegGUI fields
    is_processing,              \* self.is_processing
    progress_var,               \* self.progress_var
    waiting_for_completion,     \* self.waiting_for_completion
    progress_check_count,       \* self.progress_check_count
    \* ---- pending root.after callbacks
    rampTimers,                 \* pending simulate_progress callbacks
    checkTimers,                \* pending check_completion_status callbacks
    verifyTimers,               \* pending verify_file_stable(path, size), per size
    detectPending,              \* detection threads whose on_detection_complete is due
    ncm_pc,                     \* position inside convert_ncm_to_mp3
    \* ---- run_ffmpeg_command invocations and their child processes
    run,                        \* job -> [pc, ui, code]
    nextJob,                    \* the next job number
    supervised,                 \* the job whose start_processing set is_processing
    \* ---- the environment and what the user has been shown
    file,                       \* Absent or the output file's size
    succeeded,                  \* jobs for which on_processing_complete ran
    failMsg,                    \* job -> the text of the error box shown for it
    recording,                  \* whether file observations are being recorded
    samples,                    \* the observations of the current Finalizing episode
    \* ---- src/ffmpeggui.V0.2.py, FFmpegGUI fields
    qt_is_processing,           \* self.is_processing
    progress_bar,               \* self.progress_widget.progress_bar.value()
    progress_timer,             \* whether self.progress_timer is running
    ffmpeg_thread,              \* the job of self.ffmpeg_thread, 0 for None
    qt_ncm_pc,                  \* position inside convert_ncm_to_mp3
    \* ---- FFmpegWorker threads
    worker,                     \* job -> [pc, is_running, code]
    finished_signal,            \* queued finished_signal emissions
    qtNextJob,                  \* the next job number
    qt_crashed,                 \* the process was aborted by the Qt runtime
    \* ---- what the user has been shown
    qtSucceeded,                \* jobs reported with the success box
    qtFailMsg,                  \* job -> the text of the error box shown for it
    cancelRequested,            \* jobs whose stop() was called before they ended
    \* ---- src/ffmpeggui.py, hardware detection
    hardware_acceleration,      \* self.hardware_acceleration, in insertion order
    hardware_encoders,          \* self.hardware_encoders, in insertion order
    det,                        \* detection thread -> [pc, accel_ok, enc_ok, out]
    codec_options,              \* values of self.video_codec_combo
    widgets,                    \* the Tk variables the command is built from
    current_language,           \* self.current_language
    cmd,                        \* what build_ffmpeg_command returned for these widgets
    \* ---- src/ffmpeggui.V0.2.py, hardware detection and command builder
    qt_hardware_acceleration,   \* HardwareDetector.hardware_acceleration
    qt_hardware_encoders,       \* HardwareDetector.hardware_encoders
    params,                     \* the widget values build_ffmpeg_command reads
    qt_language,                \* FFmpegGUI.current_language and that of the tabs
    qt_cmd,                     \* what build_ffmpeg_command returned for these params
    \* ---- which of the two programs is in use
    program,                    \* "tk" (src/ffmpeggui.py) or "qt" (V0.2)
    \* ---- the NCM conversion of either program
    ncm_file,                   \* the bytes of the input file
    fallback,                   \* how decrypt_ncm_fallback ended in this conversion
    decrypted_file,             \* the temporary file of this conversion exists
    qt_decrypted_file           \* the same for V0.2

tkVars == <<is_processing, progress_var, waiting_for_completion,
            progress_check_count, rampTimers, checkTimers, verifyTimers,
            detectPending, ncm_pc, run, nextJob, supervised, file, succeeded,
            failMsg, recording, samples>>

qtVars == <<qt_is_processing, progress_bar, progress_timer, ffmpeg_thread,
            qt_ncm_pc, worker, finished_signal, qtNextJob, qt_crashed,
            qtSucceeded, qtFailMsg, cancelRequested>>

hwVars == <<hardware_acceleration, hardware_encoders, det, codec_options,
            widgets, current_language, cmd>>

qtHwVars == <<qt_hardware_acceleration, qt_hardware_encoders, params,
              qt_language, qt_cmd, program>>

ncmVars == <<ncm_file, fallback, decrypted_file, qt_decrypted_file>>

vars == <<tkVars, qtVars, hwVars, qtHwVars, ncmVars>>

\* What the operations of one variant leave alone.
notTk == <<qtVars, hwVars, qtHwVars, ncmVars>>
notQt == <<tkVars, hwVars, qtHwVars, ncmVars>>
\* ... and what the steps of convert_ncm_to_mp3 leave alone.
notTkNcm == <<qtVars, hwVars, qtHwVars, ncm_file, qt_decrypted_file>>
notQtNcm == <<tkVars, hwVars, qtHwVars, ncm_file, fallback, decrypted_file>>

NoRun == [pc |-> "none", ui |-> FALSE, code |-> "none"]
\* decrypt_ncm_fallback has not been called in this conversion.
NoCall == [ran |-> FALSE, imported |-> FALSE, ok |-> FALSE, offset |-> 0]

\* FFmpegGUI.__init__: the state after construction.
TkInit ==
    /\ is_processing = FALSE
    /\ progress_var = 0
    /\ waiting_for_completion = FALSE
    /\ progress_check_count = 0
    /\ rampTimers = 0
    /\ checkTimers = 0
    /\ verifyTimers = [s \in Sizes |-> 0]
    /\ detectPending = 0
    /\ ncm_pc = "idle"
    /\ run = [j \in Jobs |-> NoRun]
    /\ nextJob = 1
    /\ supervised = 0
    /\ file = Absent
    /\ succeeded = {}
    /\ failMsg = [j \in Jobs |-> "none"]
    /\ samples = <<>>
    /\ fallback = NoCall
    /\ decrypted_file = FALSE

\* The UI thread is inside subprocess.run (extract_audio / extract_video call
\* run_ffmpeg_command on the UI thread): no Tk callback can run.
UiBlocked == \E j \in Jobs : run[j].ui /\ run[j].pc \in {"child", "exited"}

\* simulate_progress, as a function of the values it reads.  The result
\* holds the values it writes and the callbacks it schedules.
SimulateProgress(cur, proc, wfc, cnt) ==
    IF cur < RampCap /\ proc
    THEN [progress |-> Min(cur + RampStep, RampCap), wfc |-> wfc, cnt |-> cnt,
          ramp |-> 1, check |-> 0]
    ELSE IF cur >= RampCap /\ proc /\ ~wfc
    THEN [progress |-> cur, wfc |-> TRUE, cnt |-> 0, ramp |-> 0, check |-> 1]
    ELSE [progress |-> cur, wfc |-> wfc, cnt |-> cnt, ramp |-> 0, check |-> 0]

\* A file observation is recorded while recording is on.
Observe(by, size) ==
    IF recording THEN Append(samples, [by |-> by, size |-> size]) ELSE samples
CanObserve == recording => Len(samples) < MaxSamples

\* ------------------------------------------------------------- operations

\* start_processing, for job j.
StartProcessing(j) ==
    /\ j = nextJob
    /\ ~UiBlocked
    /\ ~is_processing
    /\ is_processing' = TRUE
    /\ waiting_for_completion' = FALSE
    /\ progress_check_count' = 0
    /\ progress_var' = 0
    /\ run' = [run EXCEPT ![j] = [pc |-> "begin", ui |-> FALSE, code |-> "none"]]
    /\ nextJob' = j + 1
    /\ supervised' = j
    /\ UNCHANGED <<rampTimers, checkTimers, verifyTimers, detectPending, ncm_pc,
                   file, succeeded, failMsg, recording, samples>>
    /\ UNCHANGED notTk

\* run_ffmpeg_command up to subprocess.run: the reset, progress 0 and the
\* first, direct call of simulate_progress.
RunPrologue(j, onUi) ==
    LET r == SimulateProgress(0, is_processing, FALSE, 0) IN
    /\ waiting_for_completion' = r.wfc
    /\ progress_check_count' = r.cnt
    /\ progress_var' = r.progress
    /\ rampTimers' = rampTimers + r.ramp
    /\ checkTimers' = checkTimers + r.check
    /\ run' = [run EXCEPT ![j] = [pc |-> "child", ui |-> onUi, code |-> "none"]]

\* The worker thread of job j enters run_ffmpeg_command.
WorkerBegin(j) ==
    /\ run[j].pc = "begin"
    /\ RunPrologue(j, FALSE)
    /\ UNCHANGED <<is_processing, verifyTimers, detectPending, ncm_pc, nextJob,
                   supervised, file, succeeded, failMsg, recording, samples>>
    /\ UNCHANGED notTk

\* extract_audio / extract_video: run_ffmpeg_command is called directly, on
\* the UI thread, without touching is_processing.
Extract(j) ==
    /\ j = nextJob
    /\ ~UiBlocked
    /\ RunPrologue(j, TRUE)
    /\ nextJob' = j + 1
    /\ UNCHANGED <<is_processing, verifyTimers, detectPending, ncm_pc,
                   supervised, file, succeeded, failMsg, recording, samples>>
    /\ UNCHANGED notTk

\* The child of job j ends: subprocess.run returns or raises.
ChildExit(j, code) ==
    /\ run[j].pc = "child"
    /\ run' = [run EXCEPT ![j].pc = "exited", ![j].code = code]
    /\ UNCHANGED <<is_processing, progress_var, waiting_for_completion,
                   progress_check_count, rampTimers, checkTimers, verifyTimers,
                   detectPending, ncm_pc, nextJob, supervised, file, succeeded,
                   failMsg, recording, samples>>
    /\ UNCHANGED notTk

\* run_ffmpeg_command after subprocess.run: the success branch pins the
\* progress at 99 while is_processing, the except branches report failure.
RunEpilogue(j) ==
    /\ run[j].pc = "exited"
    /\ run' = [run EXCEPT ![j].pc = "done"]
    /\ IF run[j].code = "zero"
       THEN /\ progress_var' = IF is_processing THEN RampCap ELSE progress_var
            /\ UNCHANGED <<is_processing, failMsg>>
       ELSE /\ is_processing' = FALSE
            /\ progress_var' = 0
            /\ failMsg' = [failMsg EXCEPT ![j] =
                  IF run[j].code = "nonzero" THEN "stderr" ELSE "exception"]
    /\ UNCHANGED <<waiting_for_completion, progress_check_count, rampTimers,
                   checkTimers, verifyTimers, detectPending, ncm_pc, nextJob,
                   supervised, file, succeeded, recording, samples>>
    /\ UNCHANGED notTk

\* A pending simulate_progress callback fires.
SimulateProgressTick ==
    LET r == SimulateProgress(progress_var, is_processing,
                              waiting_for_completion, progress_check_count) IN
    /\ rampTimers > 0
    /\ ~UiBlocked
    /\ progress_var' = r.progress
    /\ waiting_for_completion' = r.wfc
    /\ progress_check_count' = r.cnt
    /\ rampTimers' = rampTimers - 1 + r.ramp
    /\ checkTimers' = checkTimers + r.check
    /\ samples' = IF r.check = 1 THEN <<>> ELSE samples
    /\ UNCHANGED <<is_processing, verifyTimers, detectPending, ncm_pc, run,
                   nextJob, supervised, file, succeeded, failMsg, recording>>
    /\ UNCHANGED notTk

\* A pending check_completion_status callback fires.
CheckCompletionStatus ==
    /\ checkTimers > 0
    /\ ~UiBlocked
    /\ CanObserve
    /\ IF ~is_processing
       THEN /\ checkTimers' = checkTimers - 1
            /\ UNCHANGED <<verifyTimers, samples>>
       ELSE IF file # Absent
       THEN /\ checkTimers' = checkTimers - 1
            /\ verifyTimers' = [verifyTimers EXCEPT ![file] = @ + 1]
            /\ samples' = Observe("check", file)
       ELSE /\ checkTimers' = checkTimers
            /\ samples' = Observe("check", Absent)
            /\ UNCHANGED verifyTimers
    /\ UNCHANGED <<is_processing, progress_var, waiting_for_completion,
                   progress_check_count, rampTimers, detectPending, ncm_pc, run,
                   nextJob, supervised, file, succeeded, failMsg, recording>>
    /\ UNCHANGED notTk

\* VerifyStep with the job complete at the first unchanged size (the
\* threshold of progress_check_count off by one).
VerifyStepOneCheck(current_size, previous_size, cnt) ==
    IF current_size = previous_size
    THEN [cnt |-> cnt + 1, complete |-> TRUE, next |-> "none"]
    ELSE [cnt |-> 0, complete |-> FALSE, next |-> "check"]

\* VerifyStep without the reset of progress_check_count on a changed size.
VerifyStepNoReset(current_size, previous_size, cnt) ==
    IF current_size = previous_size
    THEN [cnt |-> cnt + 1, complete |-> cnt + 1 >= StableChecks,
          next |-> IF cnt + 1 >= StableChecks THEN "none" ELSE "verify"]
    ELSE [cnt |-> cnt, complete |-> FALSE, next |-> "check"]

\* verify_file_stable after its is_processing test, as a function of the
\* values it reads: the new counter, whether the job is complete, and the
\* callback it schedules.
VerifyStep(current_size, previous_size, cnt) ==
    IF current_size = previous_size
    THEN [cnt |-> cnt + 1, complete |-> cnt + 1 >= StableChecks,
          next |-> IF cnt + 1 >= StableChecks THEN "none" ELSE "verify"]
    ELSE [cnt |-> 0, complete |-> FALSE, next |-> "check"]

\* A pending verify_file_stable(file_path, previous_size) callback fires.
\* on_processing_complete is part of it.
VerifyFileStable(previous_size) ==
    LET v == VerifyStep(file, previous_size, progress_check_count) IN
    /\ verifyTimers[previous_size] > 0
    /\ ~UiBlocked
    /\ CanObserve
    /\ IF ~is_processing
       THEN /\ verifyTimers' = [verifyTimers EXCEPT ![previous_size] = @ - 1]
            /\ UNCHANGED <<is_processing, progress_var, progress_check_count,
                           checkTimers, succeeded, samples>>
       ELSE /\ progress_check_count' = v.cnt
            /\ samples' = Observe("verify", file)
            /\ is_processing' = ~v.complete
            /\ progress_var' = IF v.complete THEN Complete ELSE progress_var
            /\ succeeded' = IF v.complete THEN succeeded \cup {supervised}
                            ELSE succeeded
            /\ verifyTimers' = IF v.next = "verify" THEN verifyTimers
                  ELSE [verifyTimers EXCEPT ![previous_size] = @ - 1]
            /\ checkTimers' = IF v.next = "check" THEN checkTimers + 1
                              ELSE checkTimers
    /\ UNCHANGED <<waiting_for_completion, rampTimers, detectPending, ncm_pc,
                   run, nextJob, supervised, file, failMsg, recording>>
    /\ UNCHANGED notTk

\* The output file is created, or its size changes (the child writes it).
FileChange(size) ==
    /\ size # file
    /\ file' = size
    /\ UNCHANGED <<is_processing, progress_var, waiting_for_completion,
                   progress_check_count, rampTimers, checkTimers, verifyTimers,
                   detectPending, ncm_pc, run, nextJob, supervised, succeeded,
                   failMsg, recording, samples>>
    /\ UNCHANGED notTk

\* redetect_hardware_acceleration: the progress value is reset and a
\* detection thread is started.
RedetectHardwareAcceleration ==
    /\ ~UiBlocked
    /\ detectPending < MaxDetect
    /\ progress_var' = 0
    /\ detectPending' = detectPending + 1
    /\ UNCHANGED <<is_processing, waiting_for_completion, progress_check_count,
                   rampTimers, checkTimers, verifyTimers, ncm_pc, run, nextJob,
                   supervised, file, succeeded, failMsg, recording, samples>>
    /\ UNCHANGED notTk

\* on_detection_complete, scheduled by the detection thread with after(0).
OnDetectionComplete ==
    /\ ~UiBlocked
    /\ detectPending > 0
    /\ progress_var' = Complete
    /\ detectPending' = detectPending - 1
    /\ UNCHANGED <<is_processing, waiting_for_completion, progress_check_count,
                   rampTimers, checkTimers, verifyTimers, ncm_pc, run, nextJob,
                   supervised, file, succeeded, failMsg, recording, samples>>
    /\ UNCHANGED notTk

\* convert_ncm_to_mp3 up to its first root.update().  No temporary file of
\* this conversion exists yet.
NcmBegin ==
    /\ ~UiBlocked
    /\ ncm_pc = "idle"
    /\ progress_var' = NcmDecrypting
    /\ ncm_pc' = "decrypt"
    /\ fallback' = NoCall
    /\ decrypted_file' = FALSE
    /\ UNCHANGED <<is_processing, waiting_for_completion, progress_check_count,
                   rampTimers, checkTimers, verifyTimers, detectPending, run,
                   nextJob, supervised, file, succeeded, failMsg, recording,
                   samples>>
    /\ UNCHANGED notTkNcm

\* convert_ncm_to_mp3 from the return of the decryption to its second
\* root.update(): a decrypted file was written and returned, or the
\* decryption raised and the except and finally clauses ran.
NcmDecrypted(ok) ==
    /\ ~UiBlocked
    /\ ncm_pc = "decrypt"
    /\ IF ok
       THEN /\ progress_var' = NcmConverting
            /\ ncm_pc' = "convert"
            /\ decrypted_file' = TRUE
            /\ UNCHANGED is_processing
       ELSE /\ is_processing' = FALSE
            /\ ncm_pc' = "idle"
            /\ UNCHANGED <<progress_var, decrypted_file>>
    /\ UNCHANGED <<waiting_for_completion, progress_check_count, rampTimers,
                   checkTimers, verifyTimers, detectPending, run, nextJob,
                   supervised, file, succeeded, failMsg, recording, samples>>
    /\ UNCHANGED notTkNcm

\* The decryption of convert_ncm_to_mp3, whichever decoder does it, with its
\* outcome.
NcmDecrypt(ok) ==
    /\ NcmDecrypted(ok)
    /\ UNCHANGED fallback

\* convert_ncm_to_mp3 from the FFmpeg conversion to the finally clause.  The
\* decrypted file is moved or removed on the way that ends with the completion
\* box; subprocess.run raising skips os.remove.
NcmConvert(ok) ==
    /\ ~UiBlocked
    /\ ncm_pc = "convert"
    /\ progress_var' = IF ok THEN Complete ELSE progress_var
    /\ is_processing' = FALSE
    /\ ncm_pc' = "idle"
    /\ decrypted_file' = IF ok THEN FALSE ELSE decrypted_file
    /\ UNCHANGED <<waiting_for_completion, progress_check_count, rampTimers,
                   checkTimers, verifyTimers, detectPending, run, nextJob,
                   supervised, file, succeeded, failMsg, recording, samples>>
    /\ UNCHANGED <<notTkNcm, fallback>>

\* ------------------------------------------- src/ffmpeggui.V0.2.py (Qt)

NoWorker == [pc |-> "none", is_running |-> FALSE]

\* FFmpegGUI.__init__ of V0.2: the state after construction.
QtInit ==
    /\ qt_is_processing = FALSE
    /\ progress_bar = 0
    /\ progress_timer = FALSE
    /\ ffmpeg_thread = 0
    /\ qt_ncm_pc = "idle"
    /\ worker = [j \in Jobs |-> NoWorker]
    /\ finished_signal = <<>>
    /\ qtNextJob = 1
    /\ qt_crashed = FALSE
    /\ qtSucceeded = {}
    /\ qtFailMsg = [j \in Jobs |-> "none"]
    /\ cancelRequested = {}
    /\ qt_decrypted_file = FALSE

\* The state of job j as the user can tell it from what V0.2 has shown.
QtJobState(j) ==
    IF worker[j].pc = "none" THEN "Pending"
    ELSE IF qtFailMsg[j] # "none" THEN "Failed"
    ELSE IF j \in qtSucceeded THEN "Succeeded"
    ELSE "Running"

\* The thread of worker j has not returned from run().
ThreadRunning(j) == worker[j].pc \in {"start", "reading"}

\* The body shared by start_processing and run_ffmpeg_command_direct: a new
\* FFmpegWorker and a new QTimer replace the previous ones.  Dropping the last
\* reference to a QThread that is still running either aborts the process or
\* leaves the old thread running.
QtLaunch(j) ==
    /\ qt_is_processing' = TRUE
    /\ progress_bar' = 0
    /\ worker' = [worker EXCEPT ![j] = [pc |-> "start", is_running |-> TRUE]]
    /\ ffmpeg_thread' = j
    /\ progress_timer' = TRUE
    /\ qtNextJob' = j + 1
    /\ qt_crashed' \in IF ffmpeg_thread # 0 /\ ThreadRunning(ffmpeg_thread)
                       THEN BOOLEAN ELSE {FALSE}

\* V0.2 start_processing, for job j.
QtStartProcessing(j) ==
    /\ ~qt_crashed
    /\ j = qtNextJob
    /\ ~qt_is_processing
    /\ QtLaunch(j)
    /\ UNCHANGED <<qt_ncm_pc, finished_signal, qtSucceeded, qtFailMsg,
                   cancelRequested>>
    /\ UNCHANGED notQt

\* V0.2 extract_audio / extract_video: run_ffmpeg_command_direct, for job j.
QtRunDirect(j) ==
    /\ ~qt_crashed
    /\ j = qtNextJob
    /\ QtLaunch(j)
    /\ UNCHANGED <<qt_ncm_pc, finished_signal, qtSucceeded, qtFailMsg,
                   cancelRequested>>
    /\ UNCHANGED notQt

\* FFmpegWorker.run: subprocess.Popen returns, or raises and the except
\* clause emits finished_signal(False, ...).
QtWorkerSpawn(j, ok) ==
    /\ ~qt_crashed
    /\ worker[j].pc = "start"
    /\ IF ok
       THEN /\ worker' = [worker EXCEPT ![j].pc = "reading"]
            /\ UNCHANGED finished_signal
       ELSE /\ worker' = [worker EXCEPT ![j].pc = "finished"]
            /\ finished_signal' = Append(finished_signal,
                  [job |-> j, success |-> FALSE, msg |-> "exception"])
    /\ UNCHANGED <<qt_is_processing, progress_bar, progress_timer,
                   ffmpeg_thread, qt_ncm_pc, qtNextJob, qt_crashed, qtSucceeded,
                   qtFailMsg, cancelRequested>>
    /\ UNCHANGED notQt

\* The text of finished_signal for a return code.
FinishedFor(j, code) ==
    IF code = "zero"
    THEN [job |-> j, success |-> TRUE, msg |-> "completed"]
    ELSE [job |-> j, success |-> FALSE, msg |-> "returncode"]

\* FFmpegWorker.run: a line is read while is_running is False, the child is
\* terminated and waited for.  The child may have ended by itself already.
QtWorkerTerminate(j, code) ==
    /\ ~qt_crashed
    /\ worker[j].pc = "reading"
    /\ ~worker[j].is_running
    /\ worker' = [worker EXCEPT ![j].pc = "finished"]
    /\ finished_signal' = Append(finished_signal, FinishedFor(j, code))
    /\ UNCHANGED <<qt_is_processing, progress_bar, progress_timer,
                   ffmpeg_thread, qt_ncm_pc, qtNextJob, qt_crashed, qtSucceeded,
                   qtFailMsg, cancelRequested>>
    /\ UNCHANGED notQt

\* FFmpegWorker.run: the child's output ends, process.wait() returns and
\* finished_signal is emitted for the return code.
QtChildExit(j, code) ==
    /\ ~qt_crashed
    /\ worker[j].pc = "reading"
    /\ worker' = [worker EXCEPT ![j].pc = "finished"]
    /\ finished_signal' = Append(finished_signal, FinishedFor(j, code))
    /\ UNCHANGED <<qt_is_processing, progress_bar, progress_timer,
                   ffmpeg_thread, qt_ncm_pc, qtNextJob, qt_crashed, qtSucceeded,
                   qtFailMsg, cancelRequested>>
    /\ UNCHANGED notQt

\* Stop with the flag flipped instead of cleared.
StopToggles(j) ==
    /\ ~qt_crashed
    /\ worker[j].pc # "none"
    /\ worker' = [worker EXCEPT ![j].is_running = ~worker[j].is_running]
    /\ cancelRequested' = IF QtJobState(j) = "Running"
                          THEN cancelRequested \cup {j} ELSE cancelRequested
    /\ UNCHANGED <<qt_is_processing, progress_bar, progress_timer,
                   ffmpeg_thread, qt_ncm_pc, finished_signal, qtNextJob,
                   qt_crashed, qtSucceeded, qtFailMsg>>
    /\ UNCHANGED notQt

\* FFmpegWorker.stop, called on the worker of job j.
Stop(j) ==
    /\ ~qt_crashed
    /\ worker[j].pc # "none"
    /\ worker' = [worker EXCEPT ![j].is_running = FALSE]
    /\ cancelRequested' = IF QtJobState(j) = "Running"
                          THEN cancelRequested \cup {j} ELSE cancelRequested
    /\ UNCHANGED <<qt_is_processing, progress_bar, progress_timer,
                   ffmpeg_thread, qt_ncm_pc, finished_signal, qtNextJob,
                   qt_crashed, qtSucceeded, qtFailMsg>>
    /\ UNCHANGED notQt

\* on_processing_finished, the slot of finished_signal.
OnProcessingFinished ==
    /\ ~qt_crashed
    /\ finished_signal # <<>>
    /\ LET e == Head(finished_signal) IN
        /\ qt_is_processing' = FALSE
        /\ progress_bar' = IF e.success THEN Complete ELSE 0
        /\ qtSucceeded' = IF e.success THEN qtSucceeded \cup {e.job}
                          ELSE qtSucceeded
        /\ qtFailMsg' = IF e.success THEN qtFailMsg
                        ELSE [qtFailMsg EXCEPT ![e.job] = e.msg]
    /\ finished_signal' = Tail(finished_signal)
    /\ UNCHANGED <<progress_timer, ffmpeg_thread, qt_ncm_pc, worker, qtNextJob,
                   qt_crashed, cancelRequested>>
    /\ UNCHANGED notQt

\* V0.2 simulate_progress, the slot of progress_timer.
QtSimulateProgress ==
    /\ ~qt_crashed
    /\ progress_timer
    /\ IF ~qt_is_processing
       THEN /\ progress_timer' = FALSE
            /\ UNCHANGED progress_bar
       ELSE /\ progress_bar' = IF progress_bar < QtRampCap
                               THEN Min(progress_bar + QtRampStep, QtRampCap)
                               ELSE progress_bar
            /\ UNCHANGED progress_timer
    /\ UNCHANGED <<qt_is_processing, ffmpeg_thread, qt_ncm_pc, worker,
                   finished_signal, qtNextJob, qt_crashed, qtSucceeded,
                   qtFailMsg, cancelRequested>>
    /\ UNCHANGED notQt

\* V0.2 convert_ncm_to_mp3 up to its first processEvents().
QtNcmBegin ==
    /\ ~qt_crashed
    /\ qt_ncm_pc = "idle"
    /\ progress_bar' = NcmDecrypting
    /\ qt_ncm_pc' = "decrypt"
    /\ qt_decrypted_file' = FALSE
    /\ UNCHANGED <<qt_is_processing, progress_timer, ffmpeg_thread, worker,
                   finished_signal, qtNextJob, qt_crashed, qtSucceeded,
                   qtFailMsg, cancelRequested>>
    /\ UNCHANGED notQtNcm

\* V0.2 convert_ncm_to_mp3 from NCMDecoder.decrypt_ncm_file, which returns the
\* path of a file that exists or raises, to its second processEvents().
QtNcmDecrypt(ok) ==
    /\ ~qt_crashed
    /\ qt_ncm_pc = "decrypt"
    /\ IF ok
       THEN /\ progress_bar' = NcmConverting
            /\ qt_ncm_pc' = "convert"
            /\ qt_decrypted_file' = TRUE
            /\ UNCHANGED qt_is_processing
       ELSE /\ qt_is_processing' = FALSE
            /\ qt_ncm_pc' = "idle"
            /\ UNCHANGED <<progress_bar, qt_decrypted_file>>
    /\ UNCHANGED <<progress_timer, ffmpeg_thread, worker, finished_signal,
                   qtNextJob, qt_crashed, qtSucceeded, qtFailMsg,
                   cancelRequested>>
    /\ UNCHANGED notQtNcm

\* V0.2 convert_ncm_to_mp3 from the FFmpeg conversion to the finally clause.
\* os.remove comes after subprocess.run and is skipped when that raises.
QtNcmConvert(ok) ==
    /\ ~qt_crashed
    /\ qt_ncm_pc = "convert"
    /\ progress_bar' = IF ok THEN Complete ELSE progress_bar
    /\ qt_is_processing' = FALSE
    /\ qt_ncm_pc' = "idle"
    /\ qt_decrypted_file' = IF ok THEN FALSE ELSE qt_decrypted_file
    /\ UNCHANGED <<progress_timer, ffmpeg_thread, worker, finished_signal,
                   qtNextJob, qt_crashed, qtSucceeded, qtFailMsg,
                   cancelRequested>>
    /\ UNCHANGED notQtNcm

\* ------------------------------------------------------ texts and widgets
\* Strings of the program that hold an emoji or Chinese text are written in
\* ASCII: "[e] " stands for the emoji a display name starts with, and a text
\* of the zh_CN table is written "zh:" followed by its key.

\* self.languages["zh_CN"] / LanguageManager.languages["zh_CN"]: the keys
\* the command depends on.  Both variants hold the same texts.
ZhCN ==
    [hwaccel_none |-> "[e] zh:hwaccel_none",
     hwaccel_cuda |-> "[e] NVIDIA CUDA",
     hwaccel_qsv |-> "[e] Intel Quick Sync",
     hwaccel_vaapi |-> "[e] VA-API",
     hwaccel_d3d11va |-> "[e] Direct3D 11",
     hwaccel_videotoolbox |-> "[e] Apple VideoToolbox",
     hwaccel_amf |-> "[e] AMD AMF",
     original_resolution |-> "zh:original_resolution",
     original_fps |-> "zh:original_fps",
     custom_resolution |-> "zh:custom_resolution",
     custom_fps |-> "zh:custom_fps",
     custom_sample_rate |-> "zh:custom_sample_rate",
     custom_bitrate |-> "zh:custom_bitrate",
     high_quality |-> "zh:high_quality",
     medium_quality |-> "zh:medium_quality",
     low_quality |-> "zh:low_quality",
     original_quality |-> "zh:original_quality"]
\* self.languages["en_US"] / LanguageManager.languages["en_US"]
EnUS ==
    [hwaccel_none |-> "[e] No Hardware Acceleration",
     hwaccel_cuda |-> "[e] NVIDIA CUDA",
     hwaccel_qsv |-> "[e] Intel Quick Sync",
     hwaccel_vaapi |-> "[e] VA-API",
     hwaccel_d3d11va |-> "[e] Direct3D 11",
     hwaccel_videotoolbox |-> "[e] Apple VideoToolbox",
     hwaccel_amf |-> "[e] AMD AMF",
     original_resolution |-> "Original Resolution",
     original_fps |-> "Original FPS",
     custom_resolution |-> "Custom Resolution",
     custom_fps |-> "Custom FPS",
     custom_sample_rate |-> "Custom Sample Rate",
     custom_bitrate |-> "Custom Bitrate",
     high_quality |-> "High Quality",
     medium_quality |-> "Medium",
     low_quality |-> "Low Quality",
     original_quality |-> "Original Quality"]

Languages == {"zh_CN", "en_US"}

\* FFmpegGUI.t / LanguageManager.get_text
T(language, key) == IF language = "zh_CN" THEN ZhCN[key] ELSE EnUS[key]

\* self.t("original_quality").replace(...): the "keep" entry of the channels
\* box.  The replaced characters occur in the zh_CN text only.
OriginalChannels(language) ==
    IF language = "zh_CN" THEN "zh:original_channels" ELSE T(language, "original_quality")

\* A line of free text is a sequence of words and of runs of blanks.
Blanks == {" ", "  "}
IsWord(piece) == piece \notin Blanks
\* str.split(): the words, in order.
Split(text) == SelectSeq(text, IsWord)

\* The value of the Tk variables after setup_*_tab, in the start language.
TkDefaults ==
    [input_file |-> "", output_file |-> "",
     hwaccel_var |-> T("zh_CN", "hwaccel_none"),
     video_codec |-> "libx264",
     resolution |-> T("zh_CN", "original_resolution"),
     fps |-> T("zh_CN", "original_fps"),
     audio_codec |-> "aac", sample_rate |-> "44100", channels |-> "2",
     audio_bitrate |-> "128k",
     enable_crop |-> FALSE, crop_params |-> "iw:ih:0:0",
     enable_scale |-> FALSE,
     enable_rotate |-> FALSE, rotate_angle |-> "90",
     enable_volume |-> FALSE, volume_factor |-> "1.0",
     video_quality |-> T("zh_CN", "medium_quality"),
     custom_args |-> <<>>]

\* The value of the V0.2 widgets after setup_ui, in the start language: every
\* box shows its first item.
QtDefaults ==
    [input_file |-> "", output_file |-> "",
     hwaccel |-> T("zh_CN", "hwaccel_none"),
     video_codec |-> "libx264",
     resolution |-> T("zh_CN", "original_resolution"), custom_resolution |-> "",
     fps |-> T("zh_CN", "original_fps"), custom_fps |-> "",
     audio_codec |-> "aac",
     sample_rate |-> "44100", custom_sample_rate |-> "",
     channels |-> "1",
     bitrate |-> "64k", custom_bitrate |-> "",
     crop_enabled |-> FALSE, crop_params |-> "iw:ih:0:0",
     scale_enabled |-> FALSE,
     rotate_enabled |-> FALSE, rotate_angle |-> "90",
     volume_enabled |-> FALSE, volume_factor |-> "1.0",
     video_quality |-> T("zh_CN", "high_quality"),
     custom_args |-> <<>>]

\* No build yet / build_ffmpeg_command returned None.
NoCommand == <<>>
\* build_ffmpeg_command has not run since the widgets were last changed.
NotBuilt == <<"not built">>

\* ------------------------------------------------------ hardware detection
\* hwaccels_to_check, in the order of the dict.
Accels == <<"cuda", "qsv", "vaapi", "d3d11va", "videotoolbox", "amf">>
\* The display names detect_hardware_acceleration stores.
TkAccelNames ==
    [cuda |-> "[e] NVIDIA CUDA", qsv |-> "[e] Intel Quick Sync",
     vaapi |-> "[e] VA-API", d3d11va |-> "[e] Direct3D 11",
     videotoolbox |-> "[e] Apple VideoToolbox", amf |-> "[e] AMD AMF"]
\* encoder_mapping, in the order of the dict.
Encoders == <<"h264_nvenc", "hevc_nvenc", "h264_qsv", "hevc_qsv", "h264_amf",
              "hevc_amf", "h264_vaapi", "hevc_vaapi", "h264_videotoolbox",
              "hevc_videotoolbox">>
EncoderNames ==
    [h264_nvenc |-> "NVIDIA H.264", hevc_nvenc |-> "NVIDIA H.265",
     h264_qsv |-> "Intel H.264", hevc_qsv |-> "Intel H.265",
     h264_amf |-> "AMD H.264", hevc_amf |-> "AMD H.265",
     h264_vaapi |-> "VA-API H.264", hevc_vaapi |-> "VA-API H.265",
     h264_videotoolbox |-> "VideoToolbox H.264",
     hevc_videotoolbox |-> "VideoToolbox H.265"]
\* The software codecs every codec list starts with.
BaselineCodecs == <<"libx264", "libx265", "mpeg4", "vp9", "copy">>

\* What a run of "ffmpeg -hwaccels" / "ffmpeg -encoders" that exits with code
\* 0 may list: the output is modelled by the set of known names found in it.
HwaccelOutputs == {{}, {"cuda"}, {"vaapi", "cuda"}}
EncoderOutputs == {{}, {"h264_nvenc"}, {"hevc_qsv", "h264_nvenc"}}
\* subprocess.run(..., check=True): FileNotFoundError, CalledProcessError, or
\* a result.  No timeout is passed: a child that hangs never returns.
DetectOutcomes == {"missing", "nonzero", "ok"}

Passes == 1..MaxPasses
IdlePass == [pc |-> "idle", accel_ok |-> FALSE, enc_ok |-> FALSE, out |-> {}]

Range(s) == {s[i] : i \in 1..Len(s)}

\* d[key] = {"name": name, "supported": supported} on a dict, which keeps its
\* keys in insertion order.
DictSet(d, key, name, supported) ==
    LET entry == [id |-> key, name |-> name, supported |-> supported] IN
    IF \E i \in 1..Len(d) : d[i].id = key
    THEN [i \in 1..Len(d) |-> IF d[i].id = key THEN entry ELSE d[i]]
    ELSE Append(d, entry)

\* for key, name in known.items(): d[key] = {..., "supported": ok and listed},
\* from the i-th key on.
RECURSIVE StoreAll(_, _, _, _, _, _)
StoreAll(d, known, names, ok, out, i) ==
    IF i > Len(known) THEN d
    ELSE StoreAll(DictSet(d, known[i], names[known[i]], ok /\ known[i] \in out),
                  known, names, ok, out, i + 1)

\* The maps one undisturbed pass leaves: an entry per known name, supported
\* if the run succeeded and listed it.
AccelPass(ok, out) ==
    [i \in 1..Len(Accels) |->
        [id |-> Accels[i], name |-> TkAccelNames[Accels[i]],
         supported |-> ok /\ Accels[i] \in out]]
EncoderPass(ok, out) ==
    [i \in 1..Len(Encoders) |->
        [id |-> Encoders[i], name |-> EncoderNames[Encoders[i]],
         supported |-> ok /\ Encoders[i] \in out]]

IdsOf(entries) == [i \in 1..Len(entries) |-> entries[i].id]
NamesOf(entries) == [i \in 1..Len(entries) |-> entries[i].name]
IsSupported(entry) == entry.supported

\* A codec list that appends every encoder of the dict, supported or not.
GetEveryVideoCodec(encs) == BaselineCodecs \o IdsOf(encs)

\* refresh_video_encoder_options / get_supported_video_codecs: the baseline,
\* then the encoders marked supported, in the order of the dict.
GetSupportedVideoCodecs(encs) ==
    BaselineCodecs \o IdsOf(SelectSeq(encs, IsSupported))

\* ---------------------------------------------- V0.2: hardware detection
\* hwaccels_to_check of HardwareDetector: the names carry no emoji.
QtAccelNames ==
    [cuda |-> "NVIDIA CUDA", qsv |-> "Intel Quick Sync",
     vaapi |-> "VA-API", d3d11va |-> "Direct3D 11",
     videotoolbox |-> "Apple VideoToolbox", amf |-> "AMD AMF"]

\* HardwareDetector.detect_hardware_acceleration, which runs on the UI thread
\* from the reset to the last store: a new dict, then an entry per known name,
\* supported if the run returned code 0 and listed it; _mark_all_unsupported
\* on another code, on a timeout and on any exception.
QtDetectHardwareAcceleration(ok, out) ==
    StoreAll(<<>>, Accels, QtAccelNames, ok, out, 1)
\* HardwareDetector.detect_hardware_encoders
QtDetectHardwareEncoders(ok, out) ==
    StoreAll(<<>>, Encoders, EncoderNames, ok, out, 1)

\* HardwareDetector.get_hwaccel_options: the "none" text of zh_CN (_t is pinned
\* to it), then the names of the accelerators marked supported.
GetHwaccelOptions(accs) ==
    <<T("zh_CN", "hwaccel_none")>> \o NamesOf(SelectSeq(accs, IsSupported))

\* setup_video_tab of the Tk variant: the "none" text of the language, then
\* the names of the accelerators marked supported.
TkHwaccelOptions(language, accs) ==
    <<T(language, "hwaccel_none")>> \o NamesOf(SelectSeq(accs, IsSupported))

\* combo.clear(); combo.addItems(items); if current in items:
\* combo.setCurrentText(current) -- else the box shows its first item.
Refill(current, items) ==
    IF current \in Range(items) THEN current ELSE items[1]

\* V0.2 after construction with ffmpeg found and nothing detected.
QtHwQuiet ==
    /\ qt_hardware_acceleration = QtDetectHardwareAcceleration(TRUE, {})
    /\ qt_hardware_encoders = QtDetectHardwareEncoders(TRUE, {})
    /\ params = QtDefaults
    /\ qt_language = "zh_CN"
    /\ qt_cmd = NotBuilt
    /\ program = "tk"

\* The state of the detection after initialize_app: ffmpeg was found and both
\* detections ran once, before the window was built.
HwInit ==
    /\ \E out \in HwaccelOutputs : hardware_acceleration = AccelPass(TRUE, out)
    /\ \E out \in EncoderOutputs : hardware_encoders = EncoderPass(TRUE, out)
    /\ det = [t \in Passes |-> IdlePass]
    /\ codec_options = GetSupportedVideoCodecs(hardware_encoders)
    /\ \E c \in {"libx264"} \cup (Range(codec_options) \ Range(BaselineCodecs)) :
           widgets = [TkDefaults EXCEPT !.video_codec = c]
    /\ current_language = "zh_CN"
    /\ cmd = NotBuilt

\* The same with nothing detected, for the specifications of the supervision.
HwQuiet ==
    /\ hardware_acceleration = AccelPass(TRUE, {})
    /\ hardware_encoders = EncoderPass(TRUE, {})
    /\ det = [t \in Passes |-> IdlePass]
    /\ codec_options = BaselineCodecs
    /\ widgets = TkDefaults
    /\ current_language = "zh_CN"
    /\ cmd = NotBuilt

\* What the detection threads leave alone.
tkBuild == <<widgets, current_language, cmd>>

\* The fields of the supervision, which the detection leaves alone.
supervision == <<is_processing, waiting_for_completion, progress_check_count,
                 rampTimers, checkTimers, verifyTimers, ncm_pc, run, nextJob,
                 supervised, file, succeeded, failMsg, recording, samples>>

\* redetect_hardware_acceleration: resets the progress and starts the thread
\* detect().
Redetect(t) ==
    /\ ~UiBlocked
    /\ det[t].pc = "idle"
    /\ \A u \in 1..(t - 1) : det[u].pc # "idle"
    /\ progress_var' = 0
    /\ det' = [det EXCEPT ![t].pc = "accel_reset"]
    /\ UNCHANGED <<detectPending, supervision, qtVars, qtHwVars, ncmVars>>
    /\ UNCHANGED <<hardware_acceleration, hardware_encoders, codec_options,
                   tkBuild>>

\* detect_hardware_acceleration: self.hardware_acceleration = {}
DetectAccelReset(t) ==
    /\ det[t].pc = "accel_reset"
    /\ hardware_acceleration' = <<>>
    /\ det' = [det EXCEPT ![t].pc = "accel_run"]
    /\ UNCHANGED <<tkVars, qtVars, qtHwVars, ncmVars>>
    /\ UNCHANGED <<hardware_encoders, codec_options, tkBuild>>

\* detect_hardware_acceleration: subprocess.run(["ffmpeg", "-hwaccels"])
DetectAccelRun(t, outcome, out) ==
    /\ det[t].pc = "accel_run"
    /\ det' = [det EXCEPT ![t].pc = "accel_store",
                          ![t].accel_ok = (outcome = "ok"),
                          ![t].out = IF outcome = "ok" THEN out ELSE {}]
    /\ UNCHANGED <<tkVars, qtVars, qtHwVars, ncmVars>>
    /\ UNCHANGED <<hardware_acceleration, hardware_encoders, codec_options,
                   tkBuild>>

\* detect_hardware_acceleration: the loop over hwaccels_to_check, in the try
\* body or in the except clause.  Its iterations are taken as one step: no
\* step of another thread is shown between two of its stores.
DetectAccelStore(t) ==
    /\ det[t].pc = "accel_store"
    /\ hardware_acceleration' =
           StoreAll(hardware_acceleration, Accels, TkAccelNames,
                    det[t].accel_ok, det[t].out, 1)
    /\ det' = [det EXCEPT ![t].pc = "enc_reset"]
    /\ UNCHANGED <<tkVars, qtVars, qtHwVars, ncmVars>>
    /\ UNCHANGED <<hardware_encoders, codec_options, tkBuild>>

\* detect_hardware_encoders: self.hardware_encoders = {}
DetectEncReset(t) ==
    /\ det[t].pc = "enc_reset"
    /\ hardware_encoders' = <<>>
    /\ det' = [det EXCEPT ![t].pc = "enc_run"]
    /\ UNCHANGED <<tkVars, qtVars, qtHwVars, ncmVars>>
    /\ UNCHANGED <<hardware_acceleration, codec_options, tkBuild>>

\* detect_hardware_encoders: subprocess.run(["ffmpeg", "-encoders"])
DetectEncRun(t, outcome, out) ==
    /\ det[t].pc = "enc_run"
    /\ det' = [det EXCEPT ![t].pc = "enc_store",
                          ![t].enc_ok = (outcome = "ok"),
                          ![t].out = IF outcome = "ok" THEN out ELSE {}]
    /\ UNCHANGED <<tkVars, qtVars, qtHwVars, ncmVars>>
    /\ UNCHANGED <<hardware_acceleration, hardware_encoders, codec_options,
                   tkBuild>>

\* detect_hardware_encoders: the loop over encoder_mapping, taken as one
\* step; after it detect() is over but for root.after.
DetectEncStore(t) ==
    /\ det[t].pc = "enc_store"
    /\ hardware_encoders' =
           StoreAll(hardware_encoders, Encoders, EncoderNames,
                    det[t].enc_ok, det[t].out, 1)
    /\ det' = [det EXCEPT ![t].pc = "post"]
    /\ UNCHANGED <<tkVars, qtVars, qtHwVars, ncmVars>>
    /\ UNCHANGED <<hardware_acceleration, codec_options, tkBuild>>

\* detect(): self.root.after(0, self.on_detection_complete)
DetectPost(t) ==
    /\ det[t].pc = "post"
    /\ detectPending' = detectPending + 1
    /\ det' = [det EXCEPT ![t].pc = "done"]
    /\ UNCHANGED <<progress_var, supervision, qtVars, qtHwVars, ncmVars>>
    /\ UNCHANGED <<hardware_acceleration, hardware_encoders, codec_options,
                   tkBuild>>

\* on_detection_complete with refresh_settings_tab and
\* refresh_video_encoder_options, which read both maps on the UI thread.
DetectionComplete ==
    /\ ~UiBlocked
    /\ detectPending > 0
    /\ progress_var' = Complete
    /\ detectPending' = detectPending - 1
    /\ codec_options' = GetSupportedVideoCodecs(hardware_encoders)
    /\ widgets' = IF widgets.video_codec \in Range(codec_options')
                   THEN widgets
                   ELSE [widgets EXCEPT !.video_codec = "libx264"]
    /\ UNCHANGED <<current_language, cmd>>
    /\ UNCHANGED <<supervision, qtVars, qtHwVars, ncmVars>>
    /\ UNCHANGED <<hardware_acceleration, hardware_encoders, det>>

\* ------------------------------------------------------- command builder
\* str.replace('x', ':') on the resolutions the boxes offer and the texts
\* used here; a text without an "x" is returned as it is.
ReplaceX(text) ==
    CASE text = "1280x720" -> "1280:720"
      [] text = "640x480" -> "640:480"
      [] text = "3840x2160" -> "3840:2160"
      [] OTHER -> text

\* ",".join(filters)
RECURSIVE Join(_)
Join(filters) ==
    IF Len(filters) = 0 THEN ""
    ELSE IF Len(filters) = 1 THEN filters[1]
    ELSE filters[1] \o "," \o Join(Tail(filters))

\* cmd.extend([flag, value]) whatever the condition.
OptAlways(cond, flag, value) == <<flag, value>>

\* cmd.extend([flag, value]) under a condition
Opt(cond, flag, value) == IF cond THEN <<flag, value>> ELSE <<>>

\* FFmpegGUI.build_ffmpeg_command of the Tk variant: the if/elif chain on the
\* accelerator, in the texts of the current language.
TkHwaccelFlag(w, language) ==
    LET hwaccel == w.hwaccel_var IN
    IF hwaccel = T(language, "hwaccel_none") THEN <<>>
    ELSE IF hwaccel = T(language, "hwaccel_cuda") THEN <<"-hwaccel", "cuda">>
    ELSE IF hwaccel = T(language, "hwaccel_qsv") THEN <<"-hwaccel", "qsv">>
    ELSE IF hwaccel = T(language, "hwaccel_vaapi") THEN <<"-hwaccel", "vaapi">>
    ELSE IF hwaccel = T(language, "hwaccel_d3d11va") THEN <<"-hwaccel", "d3d11va">>
    ELSE IF hwaccel = T(language, "hwaccel_videotoolbox")
         THEN <<"-hwaccel", "videotoolbox">>
    ELSE IF hwaccel = T(language, "hwaccel_amf") THEN <<"-hwaccel", "amf">>
    ELSE <<>>

\* ... its video filters
TkVideoFilters(w, language) ==
    (IF w.enable_crop THEN <<"crop=" \o w.crop_params>> ELSE <<>>)
    \o (IF w.enable_scale /\ w.resolution # T(language, "original_resolution")
        THEN <<"scale=" \o ReplaceX(w.resolution)>> ELSE <<>>)
    \o (IF w.enable_rotate THEN <<"transpose=" \o w.rotate_angle>> ELSE <<>>)

\* ... its quality flags
TkQualityParams(w, language) ==
    IF w.video_quality = T(language, "high_quality")
    THEN <<"-crf", "18", "-preset", "slow">>
    ELSE IF w.video_quality = T(language, "medium_quality")
    THEN <<"-crf", "23", "-preset", "medium">>
    ELSE IF w.video_quality = T(language, "low_quality")
    THEN <<"-crf", "28", "-preset", "fast">>
    ELSE <<>>

\* ... the command up to the custom arguments
TkBuildHead(w, language) ==
    LET vf_filters == TkVideoFilters(w, language) IN
    <<"ffmpeg">>
    \o TkHwaccelFlag(w, language)
    \o <<"-i", w.input_file, "-y">>
    \o Opt(w.video_codec # "copy", "-c:v", w.video_codec)
    \o Opt(w.resolution # T(language, "original_resolution"), "-s", w.resolution)
    \o Opt(w.fps # T(language, "original_fps"), "-r", w.fps)
    \o <<"-c:a", w.audio_codec>>
    \o <<"-ar", w.sample_rate>>
    \o Opt(w.channels # OriginalChannels(language), "-ac", w.channels)
    \o <<"-b:a", w.audio_bitrate>>
    \o Opt(vf_filters # <<>>, "-vf", Join(vf_filters))
    \o Opt(w.enable_volume, "-af", "volume=" \o w.volume_factor)
    \o TkQualityParams(w, language)

\* ... the whole of it: None (the error box) without an input or an output
\* path, else the command, the split custom arguments and the output path.
TkBuildCommand(w, language) ==
    IF w.input_file = "" \/ w.output_file = "" THEN NoCommand
    ELSE TkBuildHead(w, language) \o Split(w.custom_args) \o <<w.output_file>>

\* FFmpegCommandBuilder._t: the texts of zh_CN, whatever the language shown.
BuilderT(key) == T("zh_CN", key)

\* FFmpegCommandBuilder._get_hwaccel_internal_name; None is written "".
GetHwaccelInternalName(hwaccel_display) ==
    IF hwaccel_display = BuilderT("hwaccel_none") \/ hwaccel_display = "" THEN ""
    ELSE IF hwaccel_display = BuilderT("hwaccel_cuda") THEN "cuda"
    ELSE IF hwaccel_display = BuilderT("hwaccel_qsv") THEN "qsv"
    ELSE IF hwaccel_display = BuilderT("hwaccel_vaapi") THEN "vaapi"
    ELSE IF hwaccel_display = BuilderT("hwaccel_d3d11va") THEN "d3d11va"
    ELSE IF hwaccel_display = BuilderT("hwaccel_videotoolbox") THEN "videotoolbox"
    ELSE IF hwaccel_display = BuilderT("hwaccel_amf") THEN "amf"
    ELSE ""

\* _get_resolution, _get_fps: the custom text if "custom" is selected and the
\* text is not empty, the selection if it is neither "keep" nor "custom",
\* else None, written "".
GetKeepOrCustom(selection, custom, keep_key, custom_key) ==
    IF selection = BuilderT(custom_key) /\ custom # "" THEN custom
    ELSE IF selection \notin {BuilderT(keep_key), BuilderT(custom_key)} THEN selection
    ELSE ""
GetResolution(p) ==
    GetKeepOrCustom(p.resolution, p.custom_resolution,
                    "original_resolution", "custom_resolution")
GetFps(p) == GetKeepOrCustom(p.fps, p.custom_fps, "original_fps", "custom_fps")

\* _get_sample_rate, _get_bitrate: these have no "keep" text.
GetCustom(selection, custom, custom_key) ==
    IF selection = BuilderT(custom_key) /\ custom # "" THEN custom
    ELSE IF selection # BuilderT(custom_key) THEN selection
    ELSE ""
GetSampleRate(p) == GetCustom(p.sample_rate, p.custom_sample_rate, "custom_sample_rate")
GetBitrate(p) == GetCustom(p.bitrate, p.custom_bitrate, "custom_bitrate")

\* Filters in the order rotate, scale, crop.
BuildVideoFiltersReversed(p) ==
    (IF p.rotate_enabled THEN <<"transpose=" \o p.rotate_angle>> ELSE <<>>)
    \o (IF p.scale_enabled /\ GetResolution(p) # ""
        THEN <<"scale=" \o ReplaceX(GetResolution(p))>> ELSE <<>>)
    \o (IF p.crop_enabled THEN <<"crop=" \o p.crop_params>> ELSE <<>>)

\* _build_video_filters
BuildVideoFilters(p) ==
    (IF p.crop_enabled THEN <<"crop=" \o p.crop_params>> ELSE <<>>)
    \o (IF p.scale_enabled /\ GetResolution(p) # ""
        THEN <<"scale=" \o ReplaceX(GetResolution(p))>> ELSE <<>>)
    \o (IF p.rotate_enabled THEN <<"transpose=" \o p.rotate_angle>> ELSE <<>>)

\* _build_audio_filters
BuildAudioFilters(p) ==
    IF p.volume_enabled THEN <<"volume=" \o p.volume_factor>> ELSE <<>>

\* _get_quality_params
GetQualityParams(p) ==
    IF p.video_quality = BuilderT("high_quality")
    THEN <<"-crf", "18", "-preset", "slow">>
    ELSE IF p.video_quality = BuilderT("medium_quality")
    THEN <<"-crf", "23", "-preset", "medium">>
    ELSE IF p.video_quality = BuilderT("low_quality")
    THEN <<"-crf", "28", "-preset", "fast">>
    ELSE <<>>

\* FFmpegCommandBuilder.build_command, up to the custom arguments
BuildHead(p) ==
    <<"ffmpeg">>
    \o Opt(GetHwaccelInternalName(p.hwaccel) # "", "-hwaccel",
           GetHwaccelInternalName(p.hwaccel))
    \o <<"-i", p.input_file>>
    \o <<"-y">>
    \o Opt(p.video_codec # "" /\ p.video_codec # "copy", "-c:v", p.video_codec)
    \o Opt(GetResolution(p) # "", "-s", GetResolution(p))
    \o Opt(GetFps(p) # "", "-r", GetFps(p))
    \o Opt(p.audio_codec # "", "-c:a", p.audio_codec)
    \o Opt(GetSampleRate(p) # "", "-ar", GetSampleRate(p))
    \o Opt(p.channels # "", "-ac", p.channels)
    \o Opt(GetBitrate(p) # "", "-b:a", GetBitrate(p))
    \o Opt(BuildVideoFilters(p) # <<>>, "-vf", Join(BuildVideoFilters(p)))
    \o Opt(BuildAudioFilters(p) # <<>>, "-af", Join(BuildAudioFilters(p)))
    \o GetQualityParams(p)

\* A builder that puts the output path before the custom arguments.
BuildCommandOutputFirst(p) ==
    BuildHead(p) \o <<p.output_file>> \o Split(p.custom_args)

\* FFmpegCommandBuilder.build_command
BuildCommand(p) == BuildHead(p) \o Split(p.custom_args) \o <<p.output_file>>

\* A wrapper that checks the input path only.
QtBuildInputChecked(p) ==
    IF p.input_file = "" THEN NoCommand ELSE BuildCommand(p)

\* FFmpegGUI.build_ffmpeg_command of V0.2: None (the error box) without an
\* input or an output path, else the builder's command for the widget values.
QtBuildFfmpegCommand(p) ==
    IF p.input_file = "" \/ p.output_file = "" THEN NoCommand
    ELSE BuildCommand(p)

\* ------------------------------------------- the requests that are built
\* The texts and numbers the user is shown or types in.
InputPaths == {"", "in.mkv"}
OutputPaths == {"", "out.mp4"}
\* Custom arguments that name a video codec themselves.
OverrideArgs == <<" ", "-c:v", "  ", "libx265", " ", "-vf", " ", "hflip">>
CustomArgs == {<<>>, <<"  ">>, <<"-movflags", " ", "faststart">>, OverrideArgs}
Toggles == [crop : BOOLEAN, scale : BOOLEAN, rotate : BOOLEAN]

\* The items of the boxes of the Tk variant in a language.
TkResolutions(language) == {T(language, "original_resolution"), "1280x720"}
TkFpsValues(language) == {T(language, "original_fps"), "30"}
TkChannels(language) == {"1", "2", OriginalChannels(language)}
Qualities(language) ==
    {T(language, "high_quality"), T(language, "medium_quality"),
     T(language, "low_quality"), T(language, "original_quality")}

\* The widgets with paths chosen and nothing else touched, and with every
\* option in use, as the boxes offer them in a language.
TkPlain(language) ==
    [TkDefaults EXCEPT !.input_file = "in.mkv", !.output_file = "out.mp4",
                       !.resolution = T(language, "original_resolution"),
                       !.fps = T(language, "original_fps"),
                       !.video_quality = T(language, "medium_quality")]
TkLoaded(language, hwaccels) ==
    [TkPlain(language) EXCEPT
        !.hwaccel_var = hwaccels[Len(hwaccels)],
        !.resolution = "1280x720", !.fps = "30",
        !.enable_crop = TRUE, !.enable_scale = TRUE, !.enable_rotate = TRUE,
        !.enable_volume = TRUE, !.volume_factor = "2.0",
        !.video_quality = T(language, "high_quality"),
        !.custom_args = <<"-movflags", " ", "faststart">>]

\* What the user can make of the widgets b by changing one group of them.
TkVariations(b, language, hwaccels, codecs) ==
    {[b EXCEPT !.input_file = i, !.output_file = o] :
        i \in InputPaths, o \in OutputPaths}
    \cup {[b EXCEPT !.hwaccel_var = h] : h \in Range(hwaccels)}
    \cup {[b EXCEPT !.video_codec = c, !.custom_args = a] :
            c \in Range(codecs) \ {"libx265", "mpeg4", "vp9"},
            a \in {b.custom_args, OverrideArgs}}
    \cup {[b EXCEPT !.resolution = r, !.enable_crop = g.crop,
                    !.enable_scale = g.scale, !.enable_rotate = g.rotate] :
            r \in TkResolutions(language), g \in Toggles}
    \cup {[b EXCEPT !.fps = f] : f \in TkFpsValues(language)}
    \cup {[b EXCEPT !.sample_rate = s, !.audio_bitrate = a] :
            s \in {"44100", "48000"}, a \in {"128k", "192k"}}
    \cup {[b EXCEPT !.channels = c] : c \in TkChannels(language)}
    \cup {[b EXCEPT !.enable_volume = v] : v \in BOOLEAN}
    \cup {[b EXCEPT !.video_quality = q] : q \in Qualities(language)}
    \cup {[b EXCEPT !.custom_args = a] : a \in CustomArgs}

TkRequests(language, hwaccels, codecs) ==
    TkVariations(TkPlain(language), language, hwaccels, codecs)
    \cup TkVariations(TkLoaded(language, hwaccels), language, hwaccels, codecs)

\* The same for V0.2, whose boxes have a "custom" item and a text beside it.
QtResolutions(language) ==
    {T(language, "original_resolution"), T(language, "custom_resolution"), "1280x720"}
QtFpsValues(language) ==
    {T(language, "original_fps"), T(language, "custom_fps"), "30"}
QtSampleRates(language) == {"44100", T(language, "custom_sample_rate")}
QtBitrates(language) == {"64k", T(language, "custom_bitrate")}

QtPlain(language) ==
    [QtDefaults EXCEPT !.input_file = "in.mkv", !.output_file = "out.mp4",
                       !.resolution = T(language, "original_resolution"),
                       !.fps = T(language, "original_fps"),
                       !.video_quality = T(language, "high_quality")]
QtLoaded(language, hwaccels) ==
    [QtPlain(language) EXCEPT
        !.hwaccel = hwaccels[Len(hwaccels)],
        !.resolution = "1280x720", !.fps = "30", !.channels = "2",
        !.crop_enabled = TRUE, !.scale_enabled = TRUE, !.rotate_enabled = TRUE,
        !.volume_enabled = TRUE, !.volume_factor = "2.0",
        !.video_quality = T(language, "low_quality"),
        !.custom_args = <<"-movflags", " ", "faststart">>]

QtVariations(b, language, hwaccels, codecs) ==
    {[b EXCEPT !.input_file = i, !.output_file = o] :
        i \in InputPaths, o \in OutputPaths}
    \cup {[b EXCEPT !.hwaccel = h] : h \in Range(hwaccels)}
    \cup {[b EXCEPT !.video_codec = c, !.custom_args = a] :
            c \in Range(codecs) \ {"libx265", "mpeg4", "vp9"},
            a \in {b.custom_args, OverrideArgs}}
    \cup {[b EXCEPT !.resolution = r, !.custom_resolution = c,
                    !.crop_enabled = g.crop, !.scale_enabled = g.scale,
                    !.rotate_enabled = g.rotate] :
            r \in QtResolutions(language), c \in {"", "640x480"}, g \in Toggles}
    \cup {[b EXCEPT !.fps = f, !.custom_fps = c] :
            f \in QtFpsValues(language), c \in {"", "50"}}
    \cup {[b EXCEPT !.sample_rate = s, !.custom_sample_rate = c] :
            s \in QtSampleRates(language), c \in {"", "32000"}}
    \cup {[b EXCEPT !.bitrate = r, !.custom_bitrate = c] :
            r \in QtBitrates(language), c \in {"", "96k"}}
    \cup {[b EXCEPT !.channels = c] : c \in {"1", "2"}}
    \cup {[b EXCEPT !.volume_enabled = v] : v \in BOOLEAN}
    \cup {[b EXCEPT !.video_quality = q] : q \in Qualities(language)}
    \cup {[b EXCEPT !.custom_args = a] : a \in CustomArgs}

QtRequests(language, hwaccels, codecs) ==
    QtVariations(QtPlain(language), language, hwaccels, codecs)
    \cup QtVariations(QtLoaded(language, hwaccels), language, hwaccels, codecs)

\* --------------------------------------------- operations on the widgets
\* The accelerator box of the Tk variant is filled once, by setup_video_tab.
TkOffered == TkHwaccelOptions("zh_CN", hardware_acceleration)
QtOffered == GetHwaccelOptions(qt_hardware_acceleration)
QtCodecs == GetSupportedVideoCodecs(qt_hardware_encoders)

\* retranslate_ui of the format, video and audio tabs in a language.
Retranslate(p, language) ==
    LET Keep(current, first, others) ==
            IF current \in {first} \cup others THEN current ELSE first
    IN [p EXCEPT
          !.video_quality = Keep(@, T(language, "high_quality"), Qualities(language)),
          !.resolution = Keep(@, T(language, "original_resolution"),
                              {T(language, "custom_resolution"), "3840x2160",
                               "1920x1080", "1280x720", "854x480", "640x360"}),
          !.fps = Keep(@, T(language, "original_fps"),
                       {T(language, "custom_fps"), "60", "30", "25", "24", "15"}),
          !.hwaccel = Refill(@, QtOffered),
          !.sample_rate = Keep(@, "44100",
                               {"48000", "22050", "16000",
                                T(language, "custom_sample_rate")}),
          !.bitrate = Keep(@, "64k",
                           {"128k", "192k", "256k", "320k",
                            T(language, "custom_bitrate")})]

\* The requests the user can make of a window nobody has touched.
TkChoices ==
    IF program = "tk" /\ widgets = TkDefaults
    THEN TkRequests(current_language, TkOffered, codec_options) ELSE {}
QtChoices ==
    IF program = "qt" /\ params = Retranslate(QtDefaults, qt_language)
    THEN QtRequests(qt_language, QtOffered, QtCodecs) ELSE {}

\* The user changes the widgets of the Tk variant, which nobody has touched
\* since the window was built, to a request its boxes offer in the current
\* language.
TkSelect(w) ==
    /\ w \in TkChoices
    /\ widgets' = w
    /\ cmd' = NotBuilt
    /\ UNCHANGED <<tkVars, qtVars, qtHwVars, ncmVars>>
    /\ UNCHANGED <<hardware_acceleration, hardware_encoders, det, codec_options,
                   current_language>>

\* FFmpegGUI.switch_language of the Tk variant: update_ui_text gives the boxes
\* the items of the new language and leaves their variables as they are.
TkSwitchLanguage(language) ==
    /\ program = "tk"
    /\ current_language' = language
    /\ UNCHANGED <<tkVars, qtVars, qtHwVars, ncmVars>>
    /\ UNCHANGED <<hardware_acceleration, hardware_encoders, det, codec_options,
                   widgets, cmd>>

\* FFmpegGUI.build_ffmpeg_command of the Tk variant (update_preview,
\* start_processing).
TkBuild ==
    /\ program = "tk"
    /\ cmd' = TkBuildCommand(widgets, current_language)
    /\ UNCHANGED <<tkVars, qtVars, qtHwVars, ncmVars>>
    /\ UNCHANGED <<hardware_acceleration, hardware_encoders, det, codec_options,
                   widgets, current_language>>

\* The user changes the widgets of V0.2, which nobody has touched since the
\* window was built, to a request its boxes offer.
QtSelect(p) ==
    /\ p \in QtChoices
    /\ params' = p
    /\ qt_cmd' = NotBuilt
    /\ UNCHANGED <<tkVars, qtVars, hwVars, ncmVars>>
    /\ UNCHANGED <<qt_hardware_acceleration, qt_hardware_encoders, qt_language,
                   program>>

\* FFmpegGUI.switch_language of V0.2: nothing if the language is the current
\* one, else update_language of every tab.
QtSwitchLanguage(language) ==
    /\ program = "qt"
    /\ language # qt_language
    /\ qt_language' = language
    /\ params' = Retranslate(params, language)
    /\ qt_cmd' = IF params' = params THEN qt_cmd ELSE NotBuilt
    /\ UNCHANGED <<tkVars, qtVars, hwVars, ncmVars>>
    /\ UNCHANGED <<qt_hardware_acceleration, qt_hardware_encoders, program>>

\* FFmpegGUI.redetect_hardware_acceleration of V0.2: detect_all on the UI
\* thread, then the codec box and the accelerator box are filled again.
QtRedetect(accel_ok, accel_out, enc_ok, enc_out) ==
    /\ program = "qt"
    /\ qt_hardware_acceleration' = QtDetectHardwareAcceleration(accel_ok, accel_out)
    /\ qt_hardware_encoders' = QtDetectHardwareEncoders(enc_ok, enc_out)
    /\ params' =
         [params EXCEPT
            !.video_codec = Refill(@, GetSupportedVideoCodecs(qt_hardware_encoders')),
            !.hwaccel = Refill(@, GetHwaccelOptions(qt_hardware_acceleration'))]
    /\ qt_cmd' = IF /\ qt_hardware_acceleration' = qt_hardware_acceleration
                    /\ qt_hardware_encoders' = qt_hardware_encoders
                    /\ params' = params
                 THEN qt_cmd ELSE NotBuilt
    /\ UNCHANGED <<tkVars, qtVars, hwVars, ncmVars>>
    /\ UNCHANGED <<qt_language, program>>

\* FFmpegGUI.build_ffmpeg_command of V0.2 (update_preview, start_processing).
QtBuild ==
    /\ program = "qt"
    /\ qt_cmd' = QtBuildFfmpegCommand(params)
    /\ UNCHANGED <<tkVars, qtVars, hwVars, ncmVars>>
    /\ UNCHANGED <<qt_hardware_acceleration, qt_hardware_encoders, params,
                   qt_language, program>>

\* ------------------------------------------------- the NCM container
\* The longest key, metadata, cover and payload block of the files tried.
MaxBlock == 2

\* b'CTENFDAM\x00\x00'
Signature == <<67, 84, 69, 78, 70, 68, 65, 77, 0, 0>>

\* struct.unpack('<I', data[offset:offset+4])[0]
Unpack(data, offset) ==
    data[offset + 1] + 256 * data[offset + 2] + 65536 * data[offset + 3]
        + 16777216 * data[offset + 4]

\* A check of the first eight bytes only.
IsNcmEightBytes(data) == Len(data) >= 10 /\ SubSeq(data, 1, 8) = SubSeq(Signature, 1, 8)

\* not (len(data) < 10 or data[:10] != b'CTENFDAM\x00\x00')
IsNcm(data) == Len(data) >= 10 /\ SubSeq(data, 1, 10) = Signature

\* decrypt_ncm_fallback on the bytes of the file: whether it returned the
\* path of the file it wrote (ok) or raised, and the value of offset when it
\* ended (0 before offset is set).  importable: the imports at its top
\* succeeded.
DecryptNcmFallback(data, importable) ==
    LET Ended(ok, offset) ==
            [ran |-> TRUE, imported |-> importable, ok |-> ok, offset |-> offset]
        size == Len(data)
    IN IF ~importable THEN Ended(FALSE, 0)
       ELSE IF ~IsNcm(data) THEN Ended(FALSE, 0)
       ELSE IF size < 10 + 4 THEN Ended(FALSE, 10)
       ELSE LET key_length == Unpack(data, 10)
                key_at == 10 + 4
            IN IF size < key_at + key_length THEN Ended(FALSE, key_at)
       ELSE LET meta_len_at == key_at + key_length
            IN IF size < meta_len_at + 4 THEN Ended(FALSE, meta_len_at)
       ELSE LET meta_length == Unpack(data, meta_len_at)
                meta_at == meta_len_at + 4
            IN IF size < meta_at + meta_length THEN Ended(FALSE, meta_at)
       ELSE LET image_len_at == meta_at + meta_length
            IN IF size < image_len_at + 4 THEN Ended(FALSE, image_len_at)
       ELSE LET image_size == Unpack(data, image_len_at)
                image_at == image_len_at + 4
            IN IF image_size > 0 /\ size < image_at + image_size
               THEN Ended(FALSE, image_at)
       ELSE LET payload_at == image_at + image_size
            IN IF size <= payload_at THEN Ended(FALSE, payload_at)
               ELSE Ended(TRUE, payload_at)

\* convert_ncm_to_mp3 without the ncmdump library: the import raises
\* ImportError and the decryption is that of decrypt_ncm_fallback on the input
\* file.
NcmDecryptFallback(importable) ==
    LET r == DecryptNcmFallback(ncm_file, importable) IN
    /\ NcmDecrypted(r.ok)
    /\ fallback' = r

\* The files tried.  struct.pack('<I', n):
Pack(n) == <<n % 256, (n \div 256) % 256, (n \div 65536) % 256, n \div 16777216>>
Block(n, byte) == [i \in 1..n |-> byte]
\* A container that declares a key of key_length bytes and holds blocks of
\* key, meta, image and payload bytes.
NcmContainer(key_length, key, meta, image, payload) ==
    Signature \o Pack(key_length) \o Block(key, 1) \o Pack(meta) \o Block(meta, 2)
        \o Pack(image) \o Block(image, 3) \o Block(payload, 4)
\* Whole containers, every file cut short of one, files with another
\* signature, and files that declare a key longer than the file.
NcmFiles ==
    LET whole == {NcmContainer(k, k, m, c, p) : k, m, c, p \in 0..MaxBlock}
    IN UNION {{SubSeq(f, 1, n) : n \in 0..Len(f)} : f \in whole}
       \cup {[f EXCEPT ![i] = 1] : f \in whole, i \in {1, 10}}
       \cup {NcmContainer(300, k, 1, 1, 1) : k \in 0..MaxBlock}
\* The input file of the specifications that decrypt nothing.
PlainNcm == NcmContainer(1, 1, 1, 1, 1)

\* ---------------------------------------------------------- specifications

\* One job started by start_processing and supervised alone.
JobNext ==
    \/ StartProcessing(1)
    \/ WorkerBegin(1)
    \/ \E code \in Outcomes : ChildExit(1, code)
    \/ RunEpilogue(1)
    \/ SimulateProgressTick
    \/ CheckCompletionStatus
    \/ \E s \in Sizes : VerifyFileStable(s)
    \/ \E s \in Sizes : FileChange(s)

JobInit ==
    /\ TkInit /\ QtInit /\ HwQuiet /\ QtHwQuiet
    /\ recording = TRUE /\ ncm_file = PlainNcm

SpecJob == JobInit /\ [][JobNext]_vars

\* Every operation of the Tk variant, for up to MaxJobs jobs.
TkNext ==
    \/ \E j \in Jobs : StartProcessing(j)
    \/ \E j \in Jobs : WorkerBegin(j)
    \/ \E j \in Jobs : Extract(j)
    \/ \E j \in Jobs, code \in Outcomes : ChildExit(j, code)
    \/ \E j \in Jobs : RunEpilogue(j)
    \/ SimulateProgressTick
    \/ CheckCompletionStatus
    \/ \E s \in Sizes : VerifyFileStable(s)
    \/ \E s \in Sizes : FileChange(s)
    \/ RedetectHardwareAcceleration
    \/ OnDetectionComplete
    \/ NcmBegin
    \/ \E ok \in BOOLEAN : NcmDecrypt(ok)
    \/ \E ok \in BOOLEAN : NcmConvert(ok)

Init ==
    /\ TkInit /\ QtInit /\ HwQuiet /\ QtHwQuiet
    /\ recording = FALSE /\ ncm_file = PlainNcm

Next == TkNext

Spec == Init /\ [][Next]_vars

\* Every operation of the Qt variant (V0.2), for up to MaxJobs jobs.
QtNext ==
    \/ \E j \in Jobs : QtStartProcessing(j)
    \/ \E j \in Jobs : QtRunDirect(j)
    \/ \E j \in Jobs, ok \in BOOLEAN : QtWorkerSpawn(j, ok)
    \/ \E j \in Jobs, code \in {"zero", "nonzero"} : QtWorkerTerminate(j, code)
    \/ \E j \in Jobs, code \in {"zero", "nonzero"} : QtChildExit(j, code)
    \/ \E j \in Jobs : Stop(j)
    \/ OnProcessingFinished
    \/ QtSimulateProgress
    \/ QtNcmBegin
    \/ \E ok \in BOOLEAN : QtNcmDecrypt(ok)
    \/ \E ok \in BOOLEAN : QtNcmConvert(ok)

SpecQt == Init /\ [][QtNext]_vars

\* The hardware re-detection of the Tk variant: up to MaxPasses detection
\* threads.
DetectNext ==
    \/ \E t \in Passes : Redetect(t)
    \/ \E t \in Passes : DetectAccelReset(t)
    \/ \E t \in Passes, o \in DetectOutcomes, out \in HwaccelOutputs :
            DetectAccelRun(t, o, out)
    \/ \E t \in Passes : DetectAccelStore(t)
    \/ \E t \in Passes : DetectEncReset(t)
    \/ \E t \in Passes, o \in DetectOutcomes, out \in EncoderOutputs :
            DetectEncRun(t, o, out)
    \/ \E t \in Passes : DetectEncStore(t)
    \/ \E t \in Passes : DetectPost(t)
    \/ DetectionComplete

DetectInit ==
    /\ TkInit /\ QtInit /\ HwInit /\ QtHwQuiet
    /\ recording = FALSE /\ ncm_file = PlainNcm

SpecDetect == DetectInit /\ [][DetectNext]_vars

\* The command builder of either program: the widgets are changed, the
\* language is switched, V0.2 detects again, and the command is built.
BuildNext ==
    \/ \E w \in TkChoices : TkSelect(w)
    \/ \E language \in Languages : TkSwitchLanguage(language)
    \/ TkBuild
    \/ \E p \in QtChoices : QtSelect(p)
    \/ \E language \in Languages : QtSwitchLanguage(language)
    \/ \E accel_ok, enc_ok \in BOOLEAN :
          \E accel_out \in (IF accel_ok THEN HwaccelOutputs ELSE {{}}),
             enc_out \in (IF enc_ok THEN EncoderOutputs ELSE {{}}) :
             QtRedetect(accel_ok, accel_out, enc_ok, enc_out)
    \/ QtBuild

\* After construction: the window is built with the profile of the start-up
\* detection, which is empty if ffmpeg was not found.
TkBuildInit ==
    /\ \/ hardware_acceleration = <<>> /\ hardware_encoders = <<>>
       \/ \E ok \in BOOLEAN, accel_out \in HwaccelOutputs, enc_out \in EncoderOutputs :
             /\ hardware_acceleration = AccelPass(ok, accel_out)
             /\ hardware_encoders = EncoderPass(ok, enc_out)
    /\ det = [t \in Passes |-> IdlePass]
    /\ codec_options = GetSupportedVideoCodecs(hardware_encoders)
    /\ widgets = TkDefaults
    /\ current_language = "zh_CN"
    /\ cmd = NotBuilt
QtBuildInit ==
    /\ \/ qt_hardware_acceleration = <<>> /\ qt_hardware_encoders = <<>>
       \/ \E ok \in BOOLEAN, accel_out \in HwaccelOutputs, enc_out \in EncoderOutputs :
             /\ qt_hardware_acceleration = QtDetectHardwareAcceleration(ok, accel_out)
             /\ qt_hardware_encoders = QtDetectHardwareEncoders(ok, enc_out)
    /\ params = QtDefaults
    /\ qt_language = "zh_CN"
    /\ qt_cmd = NotBuilt
    /\ program = "qt"

BuildInit ==
    /\ TkInit /\ QtInit /\ recording = FALSE /\ ncm_file = PlainNcm
    /\ \/ TkBuildInit /\ QtHwQuiet
       \/ HwQuiet /\ QtBuildInit

SpecBuild == BuildInit /\ [][BuildNext]_vars

\* convert_ncm_to_mp3 of the Tk variant on a machine without the ncmdump
\* library, for each of the files.
NcmNext ==
    \/ NcmBegin
    \/ \E importable \in BOOLEAN : NcmDecryptFallback(importable)
    \/ \E ok \in BOOLEAN : NcmConvert(ok)

NcmInit ==
    /\ TkInit /\ QtInit /\ HwQuiet /\ QtHwQuiet
    /\ recording = FALSE /\ ncm_file \in NcmFiles

SpecNcm == NcmInit /\ [][NcmNext]_vars

\* ------------------------------------------------------------------ claims

\* The state of job j as the user can tell it from what the Tk variant has
\* shown: an error box makes it Failed, the completion box Succeeded, and a
\* supervised job whose ramp has handed over to the poll loop is Finalizing.
JobState(j) ==
    IF run[j].pc = "none" THEN "Pending"
    ELSE IF failMsg[j] # "none" THEN "Failed"
    ELSE IF j \in succeeded THEN "Succeeded"
    ELSE IF j = supervised /\ is_processing /\ waiting_for_completion
    THEN "Finalizing"
    ELSE "Running"

Terminal == {"Succeeded", "Failed", "Cancelled"}

\* Pending poll callbacks (check_completion_status and verify_file_stable).
PollPending == checkTimers + verifyTimers[100] + verifyTimers[150]

\* No callback is pending: nothing more will run on behalf of a job whose
\* run_ffmpeg_command has returned.
NoCallbackPending == rampTimers = 0 /\ PollPending = 0

\* C1: every started job delivers a terminal event.  Stated on finite runs:
\* when run_ffmpeg_command has returned for a job and no timer callback is
\* pending any more, the job has been reported as succeeded or failed and
\* is_processing is false.
C1_TerminalEventDelivered ==
    \A j \in Jobs :
        (run[j].pc = "done" /\ NoCallbackPending)
            => (JobState(j) \in Terminal /\ ~is_processing)

\* The transitions C2 allows.
AllowedTransitions ==
    { <<"Pending", "Running">>, <<"Running", "Succeeded">>,
      <<"Running", "Failed">>, <<"Running", "Finalizing">>,
      <<"Finalizing", "Succeeded">>, <<"Running", "Cancelled">>,
      <<"Finalizing", "Cancelled">> }

\* C2: a job's state only moves along Pending -> Running -> {Succeeded,
\* Failed}, optionally Running -> Finalizing -> Succeeded, or to Cancelled
\* from Running or Finalizing; no transition leaves a terminal state.
C2_OnlyAllowedTransitions ==
    [][\A j \in Jobs :
         JobState(j)' # JobState(j)
             => <<JobState(j), JobState(j)'>> \in AllowedTransitions]_vars

\* The sizes sampled in the current Finalizing episode, in order (polls that
\* found no file are left out).
RECURSIVE SizesOf(_)
SizesOf(obs) ==
    IF obs = <<>> THEN <<>>
    ELSE IF Head(obs).size = Absent THEN SizesOf(Tail(obs))
    ELSE <<Head(obs).size>> \o SizesOf(Tail(obs))

SampleSizes == SizesOf(samples)

\* The samples taken so far start with the sequence seq.
StartsWith(seq) ==
    /\ Len(SampleSizes) >= Len(seq)
    /\ SubSeq(SampleSizes, 1, Len(seq)) = seq

RECURSIVE StableRun(_)
StableRun(obs) ==
    IF Len(obs) < 2 THEN 0
    ELSE LET n == Len(obs) IN
         IF obs[n].by = "verify" /\ obs[n].size = obs[n - 1].size
         THEN 1 + StableRun(SubSeq(obs, 1, n - 1))
         ELSE 0

\* The last two polls both found the file, with sizes a and b.
LastTwo(a, b) ==
    /\ Len(samples) >= 2
    /\ samples[Len(samples) - 1].size = a
    /\ samples[Len(samples)].size = b

\* C4 (1): while the output file does not exist, a Finalizing job stays
\* Finalizing with one poll pending and is not declared Succeeded.
C4_AbsentKeepsPolling ==
    (JobState(1) = "Finalizing" /\ file = Absent)
        => (checkTimers = 1 /\ 1 \notin succeeded)

\* C4 (2): a poll whose size differs from the previous poll's leaves the
\* stability counter at zero.
C4_ChangeResetsCounter ==
    \A a, b \in Sizes : (LastTwo(a, b) /\ a # b) => progress_check_count = 0

C5_CancelledAndSilent ==
    [][\A j \in cancelRequested :
         /\ QtJobState(j)' \in {"Running", "Cancelled"}
         /\ (j = ffmpeg_thread /\ QtJobState(j)' = "Running")
                => progress_bar' = progress_bar]_vars

\* C6: cancel is idempotent.  A call of stop on a worker that was already
\* stopped changes nothing at all, and a call on a job that is already
\* terminal changes neither the job's state nor the progress value,
\* is_processing or the timer, and queues no event.
C6_StopIdempotent ==
    [][\A j \in Jobs :
         Stop(j) =>
             /\ ~worker[j].is_running => UNCHANGED vars
             /\ QtJobState(j)' = QtJobState(j)
             /\ QtJobState(j) \in Terminal =>
                    UNCHANGED <<qt_is_processing, progress_bar, progress_timer,
                                ffmpeg_thread, finished_signal, qtSucceeded,
                                qtFailMsg, cancelRequested>>]_vars

\* C6, witness: stop was called on a running job, the job has since reached a
\* terminal state, and stop can be called on it again.
C6_Witness ==
    \E j \in cancelRequested :
        /\ ~worker[j].is_running
        /\ QtJobState(j) \in Terminal
        /\ ENABLED Stop(j)

\* C7: while a job is Running or Finalizing its progress value never
\* decreases from one step to the next, and it always lies in 0..100.
C7_ProgressMonotonic ==
    [][/\ progress_var' \in 0..100
       /\ \A j \in Jobs :
            (/\ j = supervised /\ is_processing /\ is_processing'
             /\ JobState(j) \in {"Running", "Finalizing"}
             /\ JobState(j)' \in {"Running", "Finalizing"})
                => progress_var' >= progress_var]_vars

\* C8: when run_ffmpeg_command sees the child's exit code 0 while the ramp
\* is below 99, it sets the progress to 99, does not declare the job
\* Succeeded, and leaves the ramp tick pending that will enter Finalizing.
C8_ExitPinsAt99 ==
    [][\A j \in Jobs :
         (RunEpilogue(j) /\ run[j].code = "zero" /\ progress_var < RampCap)
             => /\ progress_var' = 99
                /\ j \notin succeeded'
                /\ rampTimers' > 0]_vars

\* C9: a job whose child exited non-zero, or whose subprocess.run raised,
\* ends Failed with the error text, and no success is ever reported for it.
C9_FailureNeverSucceeded ==
    \A j \in Jobs :
        run[j].code \in {"nonzero", "raised"}
            => /\ j \notin succeeded
               /\ run[j].pc = "done" =>
                      failMsg[j] = IF run[j].code = "nonzero"
                                   THEN "stderr" ELSE "exception"

\* C10: while a job is being processed the ramp timer and the poll loop are
\* never both pending, and at most one poll callback is pending.
C10_RampAndPollSequential ==
    is_processing
        => /\ PollPending <= 1
           /\ ~(rampTimers > 0 /\ PollPending > 0)

\* The map holds an entry for every known name, and no other.
HasEntryForEach(entries, known) ==
    /\ Len(entries) = Len(known)
    /\ Range(IdsOf(entries)) = Range(known)

AllUnsupported(entries) == \A i \in 1..Len(entries) : ~entries[i].supported

\* C11: when a detection pass ends, whatever the outcome of its two runs of
\* the executable, both maps hold an entry for each of the 6 accelerators and
\* each of the 10 encoders, and the entries of a run that did not succeed are
\* all unsupported.
C11_PassEndsWithFullProfile ==
    [][\A t \in Passes :
          (det[t].pc = "enc_store" /\ det'[t].pc = "post") =>
              /\ HasEntryForEach(hardware_acceleration', Accels)
              /\ HasEntryForEach(hardware_encoders', Encoders)
              /\ (~det[t].accel_ok => AllUnsupported(hardware_acceleration'))
              /\ (~det[t].enc_ok => AllUnsupported(hardware_encoders'))]_vars

\* C12: whenever on_detection_complete reads the maps on the UI thread, also
\* while another re-detection is running, each map is a complete profile:
\* never empty, never partly filled.
C12_ReadersSeeWholeProfile ==
    [][detectPending' < detectPending =>
          /\ HasEntryForEach(hardware_acceleration, Accels)
          /\ HasEntryForEach(hardware_encoders, Encoders)]_vars

\* ------------------------------------------------------------------- C13
\* The positions of the entries marked supported.
SupportedAt(entries) == {i \in 1..Len(entries) : entries[i].supported}
\* list is head followed by exactly the values of the supported entries, in
\* the order of the entries.
HeadThenSupported(list, head, entries, values) ==
    LET at == SupportedAt(entries) IN
    /\ Len(list) = Len(head) + Cardinality(at)
    /\ \A k \in 1..Len(head) : list[k] = head[k]
    /\ \A i \in at :
          list[Len(head) + Cardinality({j \in at : j <= i})] = values[i]

Req == IF program = "tk" THEN widgets ELSE params
Argv == IF program = "tk" THEN cmd ELSE qt_cmd
Built == Argv # NotBuilt
BuiltCommand == Argv \notin {NotBuilt, NoCommand}
\* The words of the custom arguments, and the command before them.
Extra == Split(Req.custom_args)
Emitted == SubSeq(Argv, 1, Len(Argv) - Len(Extra) - 1)

Positions(argv, flag) == {i \in 1..Len(argv) : argv[i] = flag}
Carries(argv, flag, value) ==
    \E i \in 1..(Len(argv) - 1) : argv[i] = flag /\ argv[i + 1] = value
\* flag is absent if value is "", else present once and followed by value.
FlagIs(argv, flag, value) ==
    IF value = "" THEN Positions(argv, flag) = {}
    ELSE Cardinality(Positions(argv, flag)) = 1 /\ Carries(argv, flag, value)

\* ------------------------------------------------------------------- C14
\* C14: build_ffmpeg_command fails, returning no argument vector, whenever
\* the input path or the output path is empty, and never fails when both are
\* given.
C14_EmptyPathFails ==
    Built => (Argv = NoCommand <=> (Req.input_file = "" \/ Req.output_file = ""))

\* C14 witness: V0.2 was asked to build with an input path and no output
\* path, and returned nothing.
C14_Witness ==
    /\ program = "qt" /\ qt_cmd = NoCommand
    /\ params.input_file # "" /\ params.output_file = ""

\* ------------------------------------------------------------------- C15
\* The flags of the builder, in the order of the specification.
FlagOrder == <<"-hwaccel", "-i", "-y", "-c:v", "-s", "-r", "-c:a", "-ar", "-ac",
               "-b:a", "-vf", "-af", "-crf", "-preset">>
Rank(flag) == CHOOSE k \in 1..Len(FlagOrder) : FlagOrder[k] = flag

\* C15: the command starts with the executable; the flags the builder emits
\* come in the order -hwaccel, -i <input>, -y, -c:v, -s, -r, -c:a, -ar, -ac,
\* -b:a, -vf, -af, -crf, -preset; then the extra arguments; the output path is
\* the last element; -i <input> -y is always there.
C15_ArgumentOrder ==
    BuiltCommand =>
        LET n == Len(Argv)
            flags == {i \in 1..Len(Emitted) : Emitted[i] \in Range(FlagOrder)}
        IN /\ Argv[1] = "ffmpeg"
           /\ \A i, j \in flags : i < j => Rank(Emitted[i]) < Rank(Emitted[j])
           /\ \E i \in flags :
                 /\ i + 2 <= Len(Emitted)
                 /\ Emitted[i] = "-i" /\ Emitted[i + 1] = Req.input_file
                 /\ Emitted[i + 2] = "-y"
           /\ SubSeq(Argv, n - Len(Extra), n - 1) = Extra
           /\ Argv[n] = Req.output_file

\* C15 witness: the Tk variant built a command with an accelerator, every
\* filter, quality flags and extra arguments.
C15_Witness ==
    /\ program = "tk" /\ BuiltCommand
    /\ {"-hwaccel", "-c:v", "-s", "-r", "-ac", "-vf", "-af", "-crf", "-movflags"}
           \subseteq Range(cmd)

\* ------------------------------------------------------------------- C16
\* C16: two builds of the same request under the same hardware profile return
\* the same argument vector, whatever ran between them.  (What a build
\* returned is kept until the widgets or the profile change.)
C16_BuildDeterministic ==
    [][/\ (cmd # NotBuilt /\ cmd' # NotBuilt) => cmd' = cmd
       /\ (qt_cmd # NotBuilt /\ qt_cmd' # NotBuilt) => qt_cmd' = qt_cmd]_vars

\* ------------------------------------------------------------------- C17
\* C17 as stated: with the codec "copy" the built command holds no -c:v;
\* with any other codec it holds -c:v followed by that codec, exactly once.
C17_CodecFlagInCommand ==
    BuiltCommand =>
        FlagIs(Argv, "-c:v", IF Req.video_codec = "copy" THEN "" ELSE Req.video_codec)

\* C17 amended: the same of the command before the extra arguments, which
\* are appended as they are and may hold a -c:v of their own.
C17_CodecFlagBeforeExtra ==
    BuiltCommand =>
        FlagIs(Emitted, "-c:v", IF Req.video_codec = "copy" THEN "" ELSE Req.video_codec)

\* C17 witness: V0.2 built a command for the codec "copy" whose extra
\* arguments hold "-c:v libx265".
C17_Witness ==
    /\ program = "qt" /\ BuiltCommand
    /\ params.video_codec = "copy"
    /\ Carries(qt_cmd, "-c:v", "libx265")

\* ------------------------------------------------------------------- C18
\* The texts of a key in the languages of the program.
Texts(key) == {ZhCN[key], EnUS[key]}
\* What the flag of a selection is to carry: nothing for "keep", the free
\* text for "custom", else the selection.
Selected(selection, custom, keep, custom_item) ==
    IF selection \in keep THEN ""
    ELSE IF selection \in custom_item THEN custom
    ELSE selection

\* C18: for -s, -r, -ar and -b:a, the flag is absent if the selection is the
\* "keep original" item, absent if it is "custom" with an empty text, carries
\* the text if it is "custom" with a text, and else carries the selected
\* value.  (The Tk variant has no "custom" items and no free texts.)
C18_KeepCustomPreset ==
    BuiltCommand =>
        /\ program = "tk" =>
              /\ FlagIs(Emitted, "-s", Selected(widgets.resolution, "",
                                              Texts("original_resolution"), {}))
              /\ FlagIs(Emitted, "-r", Selected(widgets.fps, "",
                                              Texts("original_fps"), {}))
              /\ FlagIs(Emitted, "-ar", widgets.sample_rate)
              /\ FlagIs(Emitted, "-b:a", widgets.audio_bitrate)
        /\ program = "qt" =>
              /\ FlagIs(Emitted, "-s",
                        Selected(params.resolution, params.custom_resolution,
                                 Texts("original_resolution"),
                                 Texts("custom_resolution")))
              /\ FlagIs(Emitted, "-r",
                        Selected(params.fps, params.custom_fps,
                                 Texts("original_fps"), Texts("custom_fps")))
              /\ FlagIs(Emitted, "-ar",
                        Selected(params.sample_rate, params.custom_sample_rate,
                                 {}, Texts("custom_sample_rate")))
              /\ FlagIs(Emitted, "-b:a",
                        Selected(params.bitrate, params.custom_bitrate,
                                 {}, Texts("custom_bitrate")))

\* ------------------------------------------------------------------- C19
\* The identifiers the profile gives for a display name.
Resolve(profile, selection) ==
    {profile[i].id : i \in {k \in 1..Len(profile) : profile[k].name = selection}}

\* C19: the command holds -hwaccel <id> if and only if the selection is not
\* "none" and the profile resolves it to a known identifier; the flag then
\* holds that identifier and comes before -i.
C19_HwaccelIffResolved ==
    BuiltCommand =>
        LET selection == IF program = "tk" THEN widgets.hwaccel_var ELSE params.hwaccel
            profile == IF program = "tk" THEN hardware_acceleration
                       ELSE qt_hardware_acceleration
            ids == IF selection \in Texts("hwaccel_none") THEN {}
                   ELSE Resolve(profile, selection) \cap Range(Accels)
        IN /\ Positions(Emitted, "-hwaccel") # {} <=> ids # {}
           /\ \A i \in Positions(Emitted, "-hwaccel") :
                 /\ Emitted[i + 1] \in ids
                 /\ \A j \in Positions(Emitted, "-i") : i < j

\* ------------------------------------------------------------------- C20
\* The toggles of the request and the texts its filters are made of.
Crop == IF program = "tk" THEN widgets.enable_crop ELSE params.crop_enabled
Scale == IF program = "tk" THEN widgets.enable_scale ELSE params.scale_enabled
Rotate == IF program = "tk" THEN widgets.enable_rotate ELSE params.rotate_enabled
CropFilter == IF Crop THEN <<"crop=" \o Req.crop_params>> ELSE <<>>
RotateFilter == IF Rotate THEN <<"transpose=" \o Req.rotate_angle>> ELSE <<>>
\* The sizes a scale filter of the request could name.
ScaleTargets ==
    {Req.resolution} \cup (IF program = "qt" THEN {params.custom_resolution} ELSE {})

\* C20 as stated: the builder emits exactly one -vf if a toggle of crop,
\* scale, rotate is on and none if all are off; its value is one filter per
\* toggle that is on, comma-joined, in the order crop, scale, rotate.
C20_VfPerActiveToggle ==
    BuiltCommand =>
        IF ~(Crop \/ Scale \/ Rotate) THEN Positions(Emitted, "-vf") = {}
        ELSE /\ Cardinality(Positions(Emitted, "-vf")) = 1
             /\ \E target \in ScaleTargets :
                   Carries(Emitted, "-vf",
                           Join(CropFilter
                                \o (IF Scale THEN <<"scale=" \o ReplaceX(target)>>
                                    ELSE <<>>)
                                \o RotateFilter))

\* C20 amended: the scale toggle gives a filter only if the command carries
\* a size (-s), and the filter names that size; the builder emits exactly one
\* -vf if there is a filter and none if there is none; its value is the
\* filters, comma-joined, in the order crop, scale, rotate.
C20_VfPerFilter ==
    BuiltCommand =>
        LET sized == {i \in Positions(Emitted, "-s") : i < Len(Emitted)}
            scale == IF Scale /\ sized # {}
                     THEN <<"scale=" \o ReplaceX(Emitted[(CHOOSE i \in sized : TRUE) + 1])>>
                     ELSE <<>>
            filters == CropFilter \o scale \o RotateFilter
        IN /\ Cardinality(sized) <= 1
           /\ FlagIs(Emitted, "-vf", Join(filters))

\* C20 witness: V0.2 built a command with only the scale toggle on and the
\* original resolution kept (no -vf), and the same can be built with all
\* three filters.
C20_Witness ==
    /\ program = "qt" /\ BuiltCommand
    /\ params.scale_enabled /\ ~params.crop_enabled /\ ~params.rotate_enabled
    /\ params.resolution = ZhCN.original_resolution
    /\ Positions(qt_cmd, "-vf") = {}


\* ------------------------------------------------------------------- C21
\* Config.DEFAULT_RESOLUTIONS, DEFAULT_FPS, DEFAULT_SAMPLE_RATES and
\* DEFAULT_BITRATES of V0.2: the values its boxes offer beside the texts.
DefaultPresets ==
    [resolution |-> {"3840x2160", "1920x1080", "1280x720", "854x480", "640x360"},
     fps |-> {"60", "30", "25", "24", "15"},
     sample_rate |-> {"44100", "48000", "22050", "16000"},
     bitrate |-> {"64k", "128k", "192k", "256k", "320k"}]
\* The texts the builder of V0.2 knows under the keys.
Known(keys) == {BuilderT(key) : key \in keys}

\* C21: FFmpegCommandBuilder does not fail on a selection it does not know,
\* and leaves the flag out: -s, -r, -ar, -b:a, -crf and -preset, -hwaccel are
\* absent from the command for a resolution, frame rate, sample rate,
\* bitrate, quality tier, accelerator that is not one of the known values.
C21_UnknownSelectionNoFlag ==
    (program = "qt" /\ Built /\ params.input_file # "" /\ params.output_file # "")
        => /\ BuiltCommand
           /\ params.resolution \notin
                 Known({"original_resolution", "custom_resolution"})
                     \cup DefaultPresets.resolution
                 => Positions(Emitted, "-s") = {}
           /\ params.fps \notin Known({"original_fps", "custom_fps"})
                                   \cup DefaultPresets.fps
                 => Positions(Emitted, "-r") = {}
           /\ params.sample_rate \notin Known({"custom_sample_rate"})
                                           \cup DefaultPresets.sample_rate
                 => Positions(Emitted, "-ar") = {}
           /\ params.bitrate \notin Known({"custom_bitrate"})
                                       \cup DefaultPresets.bitrate
                 => Positions(Emitted, "-b:a") = {}
           /\ params.video_quality \notin
                 Known({"high_quality", "medium_quality", "low_quality",
                        "original_quality"})
                 => Positions(Emitted, "-crf") \cup Positions(Emitted, "-preset") = {}
           /\ params.hwaccel \notin
                 Known({"hwaccel_none", "hwaccel_cuda", "hwaccel_qsv",
                        "hwaccel_vaapi", "hwaccel_d3d11va",
                        "hwaccel_videotoolbox", "hwaccel_amf"})
                 => Positions(Emitted, "-hwaccel") = {}

\* ------------------------------------------------------------------- C28
\* C28: every accelerator the detector marks supported, and so offers in the
\* accelerator box, resolves to its identifier: a command built with it
\* selected holds -hwaccel followed by that identifier.
C28_OfferedAcceleratorResolves ==
    BuiltCommand =>
        LET selection == IF program = "tk" THEN widgets.hwaccel_var ELSE params.hwaccel
            profile == IF program = "tk" THEN hardware_acceleration
                       ELSE qt_hardware_acceleration
        IN \A i \in 1..Len(profile) :
              (IsSupported(profile[i]) /\ selection = profile[i].name)
                  => Carries(Emitted, "-hwaccel", profile[i].id)

\* ------------------------------------------------------------------- C29
\* The -crf / -preset pair of a quality tier.
TierPair ==
    [high_quality |-> <<"18", "slow">>, medium_quality |-> <<"23", "medium">>,
     low_quality |-> <<"28", "fast">>]
\* The language the window of the program in use is shown in.
Shown == IF program = "tk" THEN current_language ELSE qt_language
\* The command just built treats the texts of the language shown as what
\* they stand for: no -s / -r for "keep original", and the pair of the tier.
LanguageNeutral ==
    /\ Req.resolution = T(Shown, "original_resolution")
          => Positions(Emitted, "-s") = {}
    /\ Req.fps = T(Shown, "original_fps") => Positions(Emitted, "-r") = {}
    /\ \A tier \in DOMAIN TierPair :
          Req.video_quality = T(Shown, tier)
              => /\ Carries(Emitted, "-crf", TierPair[tier][1])
                 /\ Carries(Emitted, "-preset", TierPair[tier][2])

\* C29: the built command does not depend on the language of the window.
\* Whatever switches of language came before, a build of a request whose
\* resolution or frame rate is the "keep original" item of the language shown
\* emits no -s / -r, and a quality tier picked in the language shown gives
\* the -crf / -preset pair that tier gives in the other language.
C29_LanguageIndependent ==
    [][(TkBuild \/ QtBuild) => (BuiltCommand' => LanguageNeutral')]_vars

\* ------------------------------------------------------------------- C22
\* The offsets at which a complete length-prefixed block that starts at the
\* offset at ends: the four bytes at `at` are the little-endian length of what
\* follows, and that many bytes are there.
BlockEnds(data, at) ==
    {at + 4 + n : n \in {l \in 0..Len(data) :
                            /\ at + 4 + l <= Len(data)
                            /\ SubSeq(data, at + 1, at + 4) = Pack(l)}}
\* Where the payload starts, if the file is the signature followed by a key
\* block, a metadata block and a cover block, in that order.
PayloadStarts(data) ==
    IF Len(data) >= 10 /\ SubSeq(data, 1, 10) = Signature
    THEN UNION {UNION {BlockEnds(data, meta_at) : meta_at \in BlockEnds(data, key_at)} :
                    key_at \in BlockEnds(data, 10)}
    ELSE {}

\* C22: decrypt_ncm_fallback fails, and the conversion ends with the error
\* and no decrypted file, on a file without the signature, a file whose key,
\* metadata or cover block is cut short, and a file with no payload; it
\* writes the decrypted file only after the signature and the three
\* length-prefixed blocks, in the order key, metadata, cover.
C22_DecryptRejectsMalformed ==
    fallback.ran =>
        /\ fallback.ok <=>
              /\ fallback.imported
              /\ \E payload_at \in PayloadStarts(ncm_file) : payload_at < Len(ncm_file)
        /\ fallback.ok => fallback.offset \in PayloadStarts(ncm_file)
        /\ decrypted_file => fallback.ok
        /\ ~fallback.ok => (~decrypted_file /\ ncm_pc = "idle")

\* C22 witness: a file with the signature, a key block and a metadata block
\* whose cover block declares two bytes and holds one was rejected at the
\* cover block, and no decrypted file was written.
C22_Witness ==
    /\ ncm_file = SubSeq(NcmContainer(2, 2, 1, 2, 1), 1, 26)
    /\ fallback = [ran |-> TRUE, imported |-> TRUE, ok |-> FALSE, offset |-> 25]
    /\ ~decrypted_file /\ ncm_pc = "idle"

\* ------------------------------------------------------------------- C23
\* C23: when convert_ncm_to_mp3 has ended, on whatever outcome, the temporary
\* decrypted file of that conversion no longer exists.
C23_TemporaryFileRemoved ==
    /\ ncm_pc = "idle" => ~decrypted_file
    /\ qt_ncm_pc = "idle" => ~qt_decrypted_file

\* C24: at most one transcode job is active.  While is_processing is true no
\* operation starts another job: no run_ffmpeg_command invocation, and with
\* it no child process, is added to the one being supervised.
C24_SingleActiveJob ==
    [][is_processing
          => \A j \in Jobs : run[j].pc = "none" => run'[j].pc = "none"]_vars

\* C25: a job is never Finalizing and never declared Succeeded while its
\* child is still running; the success report is made only for a child whose
\* exit with code 0 has been seen.
C25_NoVerdictWhileChildRuns ==
    \A j \in Jobs :
        /\ run[j].pc = "child" => JobState(j) \notin {"Finalizing", "Succeeded"}
        /\ j \in succeeded => (run[j].pc = "done" /\ run[j].code = "zero")

\* C26: a job gets at most one terminal notification: never both the
\* completion box and an error box.
C26_AtMostOneTerminalNotification ==
    \A j \in Jobs : ~(j \in succeeded /\ failMsg[j] # "none")

\* C27: a step of convert_ncm_to_mp3 taken while the supervised job is
\* Running or Finalizing leaves is_processing true and the progress value as
\* it was.
C27_NcmLeavesSupervisionUnchanged ==
    [][\A j \in Jobs :
         (/\ ncm_pc' # ncm_pc
          /\ j = supervised /\ is_processing
          /\ JobState(j) \in {"Running", "Finalizing"})
             => (is_processing' /\ progress_var' = progress_var)]_vars


\* C30: the progress value is 100 only when the current job has Succeeded.
\* No step leaves the supervised job Running or Finalizing with the progress
\* at 100, and the step that makes a job Failed leaves the progress at 0.
C30_FullOnlyWhenSucceeded ==
    [][\A j \in Jobs :
         /\ (j = supervised /\ JobState(j)' \in {"Running", "Finalizing"}
             /\ progress_var # Complete)
                => progress_var' # Complete
         /\ (JobState(j) # "Failed" /\ JobState(j)' = "Failed")
                => progress_var' = 0]_vars

====
